---- MODULE Spec2Model ----
(***************************************************************************)
(* OntogenesisService: the kernel population evolution engine.             *)
(*                                                                         *)
(* Numbers.  Fitness component scores are held in hundredths (0.5 is 50),  *)
(* fitness.overall, averageFitness, bestFitness and archiveThreshold in    *)
(* ten-thousandths (0.5 is 5000, 0.3 is 3000), so that the weighted sum    *)
(* 0.30/0.20/0.20/0.15/0.15 is the integer sum 30/20/20/15/15.  Rates of   *)
(* the configuration are held in percent.                                  *)
(*                                                                         *)
(* Control.  JavaScript runs every handler to completion on one thread.    *)
(* A handler in progress is a frame of `stack`; the handlers that loop     *)
(* (seeding in startEvolution, evolutionCycle) advance one loop iteration  *)
(* per step, so that the random draws of one iteration are one choice and  *)
(* so that the listeners run by emitEvent have a place to act: while the   *)
(* top frame is `emitting`, a listener may call startEvolution and         *)
(* stopEvolution.  The other public operations are called from outside,    *)
(* when no handler is in progress.                                         *)
(***************************************************************************)
EXTENDS Integers, Sequences, FiniteSets, TLC

VARIABLES
  populations,          \* state.populations
  archive,              \* state.archive
  config,               \* state.config
  globalGeneration,     \* state.globalGeneration
  totalKernelsCreated,  \* state.totalKernelsCreated
  emergenceEvents,      \* state.emergenceEvents
  isEvolving,           \* state.isEvolving
  evolutionInterval,    \* TRUE iff this.evolutionInterval holds a timer handle
  timers,               \* number of interval timers scheduled and not cleared
  nextId,               \* the next fresh kernel id (generateKernelId)
  stack,                \* handlers in progress, innermost last
  budget,               \* the calls and timer callbacks this run may still make
  lastCall,             \* the most recent public API call, what it returned and
                        \* the events it passed to emitEvent
  everDeprecated,       \* ids of the kernels deprecateKernel has deprecated
  lastTick,             \* how the most recent evolutionCycle ended
  heap,                 \* the gene objects, by reference
  returned,             \* what the most recent createKernel or breed returned
  pure,                 \* argument and result of a helper applied on its own
  cycleEvents,          \* what the most recent evolutionCycle passed to emitEvent
  eventListeners        \* this.eventListeners: the listeners of each event type

vars == <<populations, archive, config, globalGeneration, totalKernelsCreated,
          emergenceEvents, isEvolving, evolutionInterval, timers, nextId,
          stack, budget, lastCall, everDeprecated, lastTick, heap, returned,
          pure, cycleEvents, eventListeners>>

\* OntogenesisState without the handler bookkeeping.
engine == <<populations, archive, config, globalGeneration, totalKernelsCreated,
            emergenceEvents, isEvolving>>

-----------------------------------------------------------------------------
\* Bounds of the exploration.

\* Timer callbacks in one run.
MaxTicks == 2
\* addEventListener and removeEventListener calls in one run.
MaxSubscribeCalls == 2
\* Timer callbacks in a run long enough for trend.slice(-10, -5) to cut.
MaxTrendTicks == 11
\* startEvolution and stopEvolution calls in a run that exercises the scheduler.
MaxSchedulerCalls == 4
\* evaluateFitness calls, activateKernel and deprecateKernel calls, createKernel
\* and breed calls in a run that exercises the kernel lifecycle, and the kernel
\* ids 1..MaxTargetId its callers pass (an id not created yet is unknown).
MaxEvaluateCalls == 2
MaxLifecycleCalls == 2
MaxFactoryCalls == 1
MaxTargetId == 2

-----------------------------------------------------------------------------
\* Program constants.

FounderCount == 5
TrendLimit == 20
InitialScore == 50
KernelTypes == <<"inference", "reasoning", "memory", "meta">>

DORMANT == "dormant"
ACTIVE == "active"
DEPRECATED == "deprecated"
ARCHIVED == "archived"

\* The configurations explored.  populationCapacity 20 gives each of the four
\* populations capacity 5; archiveThreshold 0.6 lies above the neutral 0.5 of
\* an unevaluated kernel.
Configs ==
  { [populationCapacity |-> 20, elitismRate |-> 10, crossoverRate |-> 70,
     enableEmergence |-> TRUE, archiveThreshold |-> 6000,
     baseMutationRate |-> 10] }

\* populationCapacity 3 gives each population capacity Math.floor(3 / 4) = 0.
TinyConfig ==
  [populationCapacity |-> 3, elitismRate |-> 10, crossoverRate |-> 70,
   enableEmergence |-> TRUE, archiveThreshold |-> 6000,
   baseMutationRate |-> 10]

\* partialScores a caller passes to evaluateFitness: the components present.
LowScores ==
  [performance |-> 0, efficiency |-> 0, reliability |-> 0,
   adaptability |-> 0, innovation |-> 0]
HighScores ==
  [performance |-> 100, efficiency |-> 100, reliability |-> 100,
   adaptability |-> 100, innovation |-> 100]
ScoreInputs == {LowScores, HighScores}
\* partialScores that name some of the components.
PartialScores ==
  { [performance |-> 100], [efficiency |-> 0, innovation |-> 100] }
\* partialScores with values outside [0, 1].
WildScores ==
  { [performance |-> 200], [reliability |-> 0 - 50] }

\* request.mutationRate: absent, or 1.0.
RequestRates == { <<>>, <<100>> }

\* The values Math.random() and gaussianRandom() return to one breeding, and
\* `now`, what Date.now() returns during it.
\* With QuietDraw no gene is mutated and none is inserted (at a mutation rate
\* below 1.0); OneGeneDraw mutates the first core gene; EveryGeneDraw mutates
\* every core gene, the second by a delta of 0, and inserts a novel gene.
QuietDraw ==
  [point |-> 0, reg |-> 0, picks |-> <<0, 0, 0, 0>>,
   gates |-> <<99, 99, 99, 99>>, deltas |-> <<5, 5, 5, 5>>,
   insertGate |-> 99, insertValue |-> 0, now |-> 0]
OneGeneDraw ==
  [point |-> 50, reg |-> 50, picks |-> <<0, 99, 0, 99>>,
   gates |-> <<0, 99, 99, 99>>, deltas |-> <<50, 50, 50, 50>>,
   insertGate |-> 99, insertValue |-> 0, now |-> 0]
EveryGeneDraw ==
  [point |-> 99, reg |-> 99, picks |-> <<99, 99, 99, 99>>,
   gates |-> <<0, 0, 0, 0>>, deltas |-> <<-10, 0, 50, 5>>,
   insertGate |-> 0, insertValue |-> 42, now |-> 0]
\* The same values of Math.random, one millisecond later.
EveryGeneDrawLater == [EveryGeneDraw EXCEPT !.now = 1]
Draws == {QuietDraw, OneGeneDraw, EveryGeneDraw, EveryGeneDrawLater}

\* The draws of the successive children of one breed call.
QuietDrawLists == { <<QuietDraw, QuietDraw>> }
DrawLists ==
  { <<QuietDraw, QuietDraw>>, <<OneGeneDraw, EveryGeneDraw>>,
    <<EveryGeneDraw, OneGeneDraw>>, <<EveryGeneDrawLater, OneGeneDraw>> }

\* request.parents: one, two and three founders of the first population.
ParentLists ==
  { <<1>>, <<1, 2>>, <<1, 2, 3>> }

\* The id of the first kernel bred after the founders.
FirstChildId == Len(KernelTypes) * FounderCount + 1

\* request.parents: a founder and the first kernel bred after the founders,
\* which resolves only once it has been bred.
LaterParentLists ==
  { <<FirstChildId>>, <<2, FirstChildId>>, <<FirstChildId, 2>> }

\* What the callers of one run may do, and what the random number generator
\* returns.  In the first run a scoring service reports failing scores for up
\* to every founder of a population, in the order of their creation; in the
\* second kernels are scored again between ticks; the third exercises
\* activateKernel and deprecateKernel on a scored kernel; in the fourth a
\* caller creates and breeds kernels, and breeding mutates; the fifth
\* exercises the scheduler; in the sixth the breeding of a tick mutates, in
\* the first or the second population; in the seventh a caller breeds from a
\* founder and an offspring of a tick, and passes the id of that offspring
\* before and after it exists; in the eighth a caller reads populations and
\* best kernels; the ninth is the first under a configuration whose
\* populations have capacity 0, with a caller reading the best kernel; the
\* tenth is a long run in which two founders are scored well, so that the
\* fitness trend rises; in the eleventh to thirteenth a client registers and
\* removes listeners, one of which throws, around createKernel and breed,
\* around activateKernel and deprecateKernel, and around a tick; in the
\* fourteenth the scores name some components or lie outside [0, 1]; in the
\* fifteenth a tick archives, breeds and detects an emergence; the sixteenth
\* is the first with the failing scores reported for the founders of the
\* second population.  `targets`
\* bounds the ids the callers pass, `later` adds ids of founders of later
\* populations, `parents` are the parent lists passed to breed, `inOrder` has
\* evaluateFitness called on one founder after the other, `subscribe` bounds
\* the addEventListener and removeEventListener calls and `topics` are the
\* event types they name.
Budgets ==
  { [scheduler |-> 1, evaluate |-> FounderCount, lifecycle |-> 0, factory |-> 0,
     ticks |-> 1, targets |-> FounderCount, scores |-> {LowScores},
     draws |-> {QuietDraw}, drawLists |-> QuietDrawLists,
     rates |-> {<<>>}, later |-> {}, parents |-> {}, getter |-> 0, inOrder |-> TRUE, configs |-> Configs,
     subscribe |-> 0, topics |-> {}],
    [scheduler |-> 1, evaluate |-> MaxEvaluateCalls, lifecycle |-> 0,
     factory |-> 0, ticks |-> MaxTicks, targets |-> MaxTargetId,
     scores |-> ScoreInputs, draws |-> {QuietDraw}, drawLists |-> QuietDrawLists,
     rates |-> {<<>>}, later |-> {}, parents |-> {}, getter |-> 0, inOrder |-> FALSE, configs |-> Configs,
     subscribe |-> 0, topics |-> {}],
    [scheduler |-> 1, evaluate |-> 1, lifecycle |-> MaxLifecycleCalls,
     factory |-> 0, ticks |-> 1, targets |-> MaxTargetId,
     scores |-> {LowScores}, draws |-> {QuietDraw}, drawLists |-> QuietDrawLists,
     rates |-> {<<>>}, later |-> {}, parents |-> {}, getter |-> 0, inOrder |-> FALSE, configs |-> Configs,
     subscribe |-> 0, topics |-> {}],
    [scheduler |-> 1, evaluate |-> 0, lifecycle |-> 0,
     factory |-> MaxFactoryCalls, ticks |-> 0, targets |-> MaxTargetId,
     scores |-> {LowScores}, draws |-> Draws, drawLists |-> DrawLists,
     rates |-> RequestRates, later |-> {}, parents |-> ParentLists, getter |-> 0, inOrder |-> FALSE, configs |-> Configs,
     subscribe |-> 0, topics |-> {}],
    [scheduler |-> MaxSchedulerCalls, evaluate |-> 0, lifecycle |-> 0,
     factory |-> 0, ticks |-> MaxTicks, targets |-> MaxTargetId,
     scores |-> ScoreInputs, draws |-> {QuietDraw}, drawLists |-> QuietDrawLists,
     rates |-> {<<>>}, later |-> {}, parents |-> {}, getter |-> 0, inOrder |-> FALSE, configs |-> Configs,
     subscribe |-> 0, topics |-> {}],
    [scheduler |-> 1, evaluate |-> MaxEvaluateCalls, lifecycle |-> 0,
     factory |-> 0, ticks |-> MaxTicks, targets |-> 1,
     scores |-> {LowScores}, draws |-> Draws, drawLists |-> QuietDrawLists,
     rates |-> {<<>>}, later |-> {FounderCount + 1}, parents |-> {}, getter |-> 0, inOrder |-> FALSE, configs |-> Configs,
     subscribe |-> 0, topics |-> {}],
    [scheduler |-> 1, evaluate |-> 1, lifecycle |-> 1,
     factory |-> 1, ticks |-> 1, targets |-> 1,
     scores |-> {LowScores}, draws |-> {QuietDraw}, drawLists |-> QuietDrawLists,
     rates |-> {<<>>}, later |-> {FirstChildId}, parents |-> LaterParentLists, getter |-> 0, inOrder |-> FALSE, configs |-> Configs,
     subscribe |-> 0, topics |-> {}],
    [scheduler |-> 1, evaluate |-> 1, lifecycle |-> 0,
     factory |-> 0, ticks |-> 1, targets |-> MaxTargetId,
     scores |-> ScoreInputs, draws |-> {QuietDraw}, drawLists |-> QuietDrawLists,
     rates |-> {<<>>}, later |-> {}, parents |-> {}, getter |-> 1, inOrder |-> FALSE, configs |-> Configs,
     subscribe |-> 0, topics |-> {}],
    [scheduler |-> 1, evaluate |-> FounderCount, lifecycle |-> 0, factory |-> 0,
     ticks |-> 1, targets |-> FounderCount, scores |-> {LowScores},
     draws |-> {QuietDraw}, drawLists |-> QuietDrawLists,
     rates |-> {<<>>}, later |-> {}, parents |-> {}, getter |-> 1,
     inOrder |-> TRUE, configs |-> {TinyConfig},
     subscribe |-> 0, topics |-> {}],
    [scheduler |-> 1, evaluate |-> 2, lifecycle |-> 0, factory |-> 0,
     ticks |-> MaxTrendTicks, targets |-> 2, scores |-> {HighScores},
     draws |-> {QuietDraw}, drawLists |-> QuietDrawLists,
     rates |-> {<<>>}, later |-> {}, parents |-> {}, getter |-> 0,
     inOrder |-> TRUE, configs |-> Configs,
     subscribe |-> 0, topics |-> {}],
    [scheduler |-> 1, evaluate |-> 0, lifecycle |-> 0, factory |-> 1,
     ticks |-> 0, targets |-> MaxTargetId, scores |-> {LowScores},
     draws |-> {QuietDraw}, drawLists |-> QuietDrawLists,
     rates |-> {<<>>}, later |-> {}, parents |-> ParentLists, getter |-> 0,
     inOrder |-> FALSE, configs |-> Configs,
     subscribe |-> MaxSubscribeCalls,
     topics |-> {"kernel-created", "breeding-complete"}],
    [scheduler |-> 1, evaluate |-> 0, lifecycle |-> 2, factory |-> 0,
     ticks |-> 0, targets |-> 1, scores |-> {LowScores},
     draws |-> {QuietDraw}, drawLists |-> QuietDrawLists,
     rates |-> {<<>>}, later |-> {}, parents |-> {}, getter |-> 0,
     inOrder |-> FALSE, configs |-> Configs,
     subscribe |-> MaxSubscribeCalls,
     topics |-> {"kernel-activated", "kernel-deprecated"}],
    [scheduler |-> 1, evaluate |-> 1, lifecycle |-> 0, factory |-> 0,
     ticks |-> 1, targets |-> 1, scores |-> {LowScores},
     draws |-> {QuietDraw}, drawLists |-> QuietDrawLists,
     rates |-> {<<>>}, later |-> {}, parents |-> {}, getter |-> 0,
     inOrder |-> FALSE, configs |-> Configs,
     subscribe |-> MaxSubscribeCalls,
     topics |-> {"breeding-complete", "population-updated",
                 "generation-complete"}],
    [scheduler |-> 1, evaluate |-> MaxEvaluateCalls, lifecycle |-> 0,
     factory |-> 0, ticks |-> 1, targets |-> 1,
     scores |-> PartialScores \cup WildScores,
     draws |-> {QuietDraw}, drawLists |-> QuietDrawLists,
     rates |-> {<<>>}, later |-> {}, parents |-> {}, getter |-> 0,
     inOrder |-> FALSE, configs |-> Configs,
     subscribe |-> 0, topics |-> {}],
    [scheduler |-> 1, evaluate |-> 3, lifecycle |-> 0, factory |-> 0,
     ticks |-> MaxTrendTicks - 5, targets |-> 3, scores |-> ScoreInputs,
     draws |-> {QuietDraw}, drawLists |-> QuietDrawLists,
     rates |-> {<<>>}, later |-> {}, parents |-> {}, getter |-> 0,
     inOrder |-> TRUE, configs |-> Configs,
     subscribe |-> 0, topics |-> {}],
    [scheduler |-> 1, evaluate |-> FounderCount, lifecycle |-> 0, factory |-> 0,
     ticks |-> 1, targets |-> 2 * FounderCount, scores |-> {LowScores},
     draws |-> {QuietDraw}, drawLists |-> QuietDrawLists,
     rates |-> {<<>>}, later |-> {}, parents |-> {}, getter |-> 0,
     inOrder |-> TRUE, configs |-> Configs,
     subscribe |-> 0, topics |-> {}] }

-----------------------------------------------------------------------------
\* Genes and genomes.
\*
\* A gene is an object: `heap` holds the gene objects and a genome's coreGenes
\* and regulatoryGenes are sequences of references into it, so that two arrays
\* holding the same object are two sequences holding the same reference.  Gene
\* values are held in hundredths (0.7 is 70, 2048 is 204800).

Gene(id, value) ==
  [id |-> id, type |-> "parameter", value |-> value, mutable |-> TRUE]

\* KERNEL_TEMPLATES: the core genes of each template's baseGenome.
TemplateGenes ==
  [type \in {"inference", "reasoning", "memory", "meta"} |->
     CASE type = "inference" ->
            << Gene("temperature", 70), Gene("maxTokens", 204800), Gene("topP", 90) >>
       [] type = "reasoning" ->
            << Gene("depth", 300), Gene("breadth", 500), Gene("rigor", 80) >>
       [] type = "memory" ->
            << Gene("capacity", 700), Gene("decay", 10), Gene("consolidation", 30) >>
       [] type = "meta" ->
            << Gene("introspectionDepth", 200), Gene("selfAwareness", 50),
               Gene("adaptability", 60) >>]

\* The gene objects of the templates, which exist before any kernel.
TemplateHeap ==
  TemplateGenes["inference"] \o TemplateGenes["reasoning"]
    \o TemplateGenes["memory"] \o TemplateGenes["meta"]

\* template.baseGenome.coreGenes as references.
TemplateCoreGenes(type) ==
  LET first == CHOOSE r \in 1..Len(TemplateHeap) :
                 /\ TemplateHeap[r] = TemplateGenes[type][1]
                 /\ \A q \in 1..(r - 1) : TemplateHeap[q] # TemplateGenes[type][1]
  IN  [i \in 1..Len(TemplateGenes[type]) |-> first + i - 1]

\* The text JSON.stringify gives for a gene id, as one token of the hashed data.
IdCode(id) ==
  CASE id = "temperature" -> 101 [] id = "maxTokens" -> 102 [] id = "topP" -> 103
    [] id = "depth" -> 104 [] id = "breadth" -> 105 [] id = "rigor" -> 106
    [] id = "capacity" -> 107 [] id = "decay" -> 108 [] id = "consolidation" -> 109
    [] id = "introspectionDepth" -> 110 [] id = "selfAwareness" -> 111
    [] id = "adaptability" -> 112 [] id = "custom" -> 113
    [] id = "gene-later" -> 115 [] OTHER -> 114

\* JSON.stringify({core: [{id, value}...], reg: [{id, value}...]}) as a
\* sequence of tokens: an id and a value per gene, in gene order, and a
\* separator between the two arrays.
\* The text JSON.stringify gives for a gene's value, as one token: a number
\* is itself, true and false and a string are texts of their own.
ValueToken(gene) ==
  IF gene.type = "parameter" THEN gene.value
  ELSE IF gene.type = "switch" THEN (IF gene.value THEN 1001 ELSE 1002)
  ELSE 1003

RECURSIVE GeneTokens(_, _)
GeneTokens(refs, h) ==
  IF refs = <<>> THEN <<>>
  ELSE << IdCode(h[refs[1]].id), ValueToken(h[refs[1]]) >>
         \o GeneTokens(Tail(refs), h)

ChecksumData(coreGenes, regulatoryGenes, h) ==
  GeneTokens(coreGenes, h) \o <<0>> \o GeneTokens(regulatoryGenes, h)

Limb == 65536

\* hash = ((hash << 5) - hash) + char; hash = hash & hash: 31 * hash + char
\* in 32-bit two's complement, held as two 16-bit limbs <<high, low>>.
HashStep(hash, char) ==
  LET low == hash[2] * 31 + char
  IN  << (hash[1] * 31 + low \div Limb) % Limb, low % Limb >>

RECURSIVE HashLoop(_, _)
HashLoop(hash, data) ==
  IF data = <<>> THEN hash ELSE HashLoop(HashStep(hash, data[1]), Tail(data))

\* Math.abs of the 32-bit value: a set sign bit means a negative number.
AbsInt32(hash) ==
  IF hash[1] < Limb \div 2 THEN hash
  ELSE IF hash[2] = 0 THEN << Limb - hash[1], 0 >>
  ELSE << Limb - 1 - hash[1], Limb - hash[2] >>

\* Number.prototype.toString(16) of a non-negative number below 2^16 * 2^16:
\* its hexadecimal digits, most significant first, without leading zeros.
RECURSIVE HexDigits(_)
HexDigits(n) ==
  IF n < 16 THEN <<n>> ELSE Append(HexDigits(n \div 16), n % 16)

PadTo4(digits) ==
  [i \in 1..4 |-> IF i <= 4 - Len(digits) THEN 0 ELSE digits[i - (4 - Len(digits))]]

ToHex(hash) ==
  IF hash[1] = 0 THEN HexDigits(hash[2])
  ELSE HexDigits(hash[1]) \o PadTo4(HexDigits(hash[2]))

calculateChecksum(coreGenes, regulatoryGenes, h) ==
  ToHex(AbsInt32(HashLoop(<<0, 0>>, ChecksumData(coreGenes, regulatoryGenes, h))))

-----------------------------------------------------------------------------
\* Kernels.

createInitialFitness ==
  [overall |-> 100 * InitialScore, performance |-> InitialScore,
   efficiency |-> InitialScore, reliability |-> InitialScore,
   adaptability |-> InitialScore, innovation |-> InitialScore,
   evaluations |-> 0]

calculateOverallFitness(f) ==
  f.performance * 30 + f.efficiency * 20 + f.reliability * 20
    + f.adaptability * 15 + f.innovation * 15

\* The genome createKernel builds from the template of `type` on heap h: the
\* template's gene array copied element by element (the same gene objects),
\* then the customGenome's core genes, then the checksum.
TemplateGenome(type, customCoreGenes, h) ==
  LET coreGenes == TemplateCoreGenes(type) \o customCoreGenes
  IN  [coreGenes |-> coreGenes, regulatoryGenes |-> <<>>,
       expressionModifiers |-> <<>>,
       checksum |-> calculateChecksum(coreGenes, <<>>, h)]

\* The kernel createKernel builds from the template of `type`.
NewKernel(id, type, genome) ==
  [id |-> id, type |-> type,
   lineage |-> [generation |-> 0, parents |-> <<>>, ancestors |-> <<>>,
                breedingMethod |-> "synthetic", mutations |-> <<>>],
   genome |-> genome,
   fitness |-> createInitialFitness,
   state |-> DORMANT]

Max(a, b) == IF a >= b THEN a ELSE b

\* The generation of the first parent alone.
FirstGeneration(ps) ==
  ps[1].lineage.generation

RECURSIVE MaxGeneration(_)
MaxGeneration(ps) ==
  IF Len(ps) = 1 THEN ps[1].lineage.generation
  ELSE Max(ps[1].lineage.generation, MaxGeneration(Tail(ps)))

InSeq(x, s) == \E i \in 1..Len(s) : s[i] = x

\* Adding to a Set keeps the first insertion of each id, in insertion order.
RECURSIVE AddAll(_, _)
AddAll(acc, ids) ==
  IF ids = <<>> THEN acc
  ELSE AddAll(IF InSeq(ids[1], acc) THEN acc ELSE Append(acc, ids[1]), Tail(ids))

FirstN(s, n) == SubSeq(s, 1, IF Len(s) < n THEN Len(s) ELSE n)

RECURSIVE AncestorSet(_, _)
AncestorSet(acc, ps) ==
  IF ps = <<>> THEN acc
  ELSE AncestorSet(
         AddAll(AddAll(acc, <<ps[1].id>>), FirstN(ps[1].lineage.ancestors, 4)),
         Tail(ps))

\* The chain without its final slice.
buildAncestorChainUncapped(ps) == AncestorSet(<<>>, ps)

buildAncestorChain(ps) == FirstN(AncestorSet(<<>>, ps), 5)

-----------------------------------------------------------------------------
\* Lookup.

PopIndexOf(id) ==
  { p \in 1..Len(populations) :
      \E i \in 1..Len(populations[p].kernels) : populations[p].kernels[i].id = id }

Least(S) == CHOOSE x \in S : \A y \in S : x <= y

\* Where findKernel finds `id`: the first population holding it, else the
\* archive, else nowhere.
findKernel(id) ==
  IF PopIndexOf(id) # {}
  THEN LET p == Least(PopIndexOf(id))
           i == Least({ j \in 1..Len(populations[p].kernels) :
                          populations[p].kernels[j].id = id })
       IN  [where |-> "population", p |-> p, i |-> i]
  ELSE IF \E j \in 1..Len(archive) : archive[j].id = id
  THEN [where |-> "archive", p |-> 0,
        i |-> Least({ j \in 1..Len(archive) : archive[j].id = id })]
  ELSE [where |-> "nowhere", p |-> 0, i |-> 0]

KernelAt(loc) ==
  IF loc.where = "population" THEN populations[loc.p].kernels[loc.i]
  ELSE archive[loc.i]

\* The populations and the archive after the kernel object at loc became k.
PopulationsWith(loc, k) ==
  IF loc.where = "population"
  THEN [populations EXCEPT ![loc.p].kernels[loc.i] = k]
  ELSE populations

ArchiveWith(loc, k) ==
  IF loc.where = "archive" THEN [archive EXCEPT ![loc.i] = k] ELSE archive

-----------------------------------------------------------------------------
\* Populations.

\* The population initializePopulations builds for `type`, before its founders.
NewPopulation(type) ==
  [name |-> type, generation |-> 0, kernels |-> <<>>,
   statistics |-> [totalCreated |-> 0, activeCount |-> 0, archivedCount |-> 0,
                   averageFitness |-> 0, bestFitness |-> 0, fitnessTrend |-> <<>>,
                   diversityIndex |-> [num |-> 0, den |-> 1]],
   capacity |-> config.populationCapacity \div Len(KernelTypes)]

-----------------------------------------------------------------------------
\* performSelection.

\* Array.prototype.sort with (a, b) => b.overall - a.overall: descending and
\* stable, so kernels of equal fitness keep their relative order.
InsertByFitness(sorted, k) ==
  LET n == Cardinality({ i \in 1..Len(sorted) :
                           sorted[i].fitness.overall >= k.fitness.overall })
  IN  SubSeq(sorted, 1, n) \o <<k>> \o SubSeq(sorted, n + 1, Len(sorted))

RECURSIVE SortByFitness(_)
SortByFitness(ks) ==
  IF ks = <<>> THEN <<>>
  ELSE InsertByFitness(SortByFitness(SubSeq(ks, 1, Len(ks) - 1)), ks[Len(ks)])

\* The filter without its evaluations > 0 conjunct.
ShouldArchiveUnevaluated(k, minFitness) ==
  k.fitness.overall < minFitness

\* The filter that picks the kernels to archive.
ShouldArchive(k, minFitness) ==
  k.fitness.overall < minFitness /\ k.fitness.evaluations > 0

\* The kernel list after the loop over toArchive set their state.
MarkArchived(ks, minFitness) ==
  [i \in 1..Len(ks) |->
     IF ShouldArchive(ks[i], minFitness) THEN [ks[i] EXCEPT !.state = ARCHIVED]
     ELSE ks[i]]

\* The kernels the loop pushed to the archive, in order.
ToArchive(ks, minFitness) ==
  SelectSeq(MarkArchived(ks, minFitness), LAMBDA k : ShouldArchive(k, minFitness))

\* The kernel list left as it is.
RemoveArchivedKeepsAll(ks) ==
  ks

\* population.kernels.filter(k => k.state !== ARCHIVED)
RemoveArchived(ks) ==
  SelectSeq(ks, LAMBDA k : k.state # ARCHIVED)

\* performSelection without the archivedCount++ of its loop.
performSelectionUncounted(pop, minFitness) ==
  [pop EXCEPT
     !.kernels = RemoveArchived(MarkArchived(SortByFitness(pop.kernels), minFitness))]

\* The population after performSelection.
performSelection(pop, minFitness) ==
  LET sorted == SortByFitness(pop.kernels)
  IN  [pop EXCEPT
         !.kernels = RemoveArchived(MarkArchived(sorted, minFitness)),
         !.statistics.archivedCount = @ + Len(ToArchive(sorted, minFitness))]

\* What performSelection appends to the archive.
SelectionArchived(pop, minFitness) ==
  ToArchive(SortByFitness(pop.kernels), minFitness)

-----------------------------------------------------------------------------
\* breed and performBreeding.

\* Math.ceil(n * rate), rate in percent.
CeilOfRate(n, rate) ==
  (n * rate + 99) \div 100

\* An elite taken from the kernels that are not DEPRECATED.
EliteOfLive(pop) ==
  LET live == SelectSeq(pop.kernels, LAMBDA k : k.state # DEPRECATED)
      eliteCount == CeilOfRate(Len(pop.kernels), config.elitismRate)
      top == FirstN(live, eliteCount)
  IN  [i \in 1..Len(top) |-> top[i].id]

\* The ids of population.kernels.slice(0, eliteCount).
EliteOf(pop) ==
  LET eliteCount == CeilOfRate(Len(pop.kernels), config.elitismRate)
      top == FirstN(pop.kernels, eliteCount)
  IN  [i \in 1..Len(top) |-> top[i].id]

newKernelsNeeded(pop) ==
  Max(0, pop.capacity - Len(pop.kernels))

\* request.parents.map(findKernel).filter(k => k !== null)
RECURSIVE ResolveParents(_)
ResolveParents(ids) ==
  IF ids = <<>> THEN <<>>
  ELSE LET loc == findKernel(ids[1])
       IN  (IF loc.where = "nowhere" THEN <<>> ELSE <<KernelAt(loc)>>)
             \o ResolveParents(Tail(ids))

\* A child typed by the template list instead of by its first parent.
BreedChildOfFirstTemplate(parents, method, id, genome, mutations) ==
  [id |-> id, type |-> KernelTypes[1],
   lineage |-> [generation |-> MaxGeneration(parents) + 1,
                parents |-> [i \in 1..Len(parents) |-> parents[i].id],
                ancestors |-> buildAncestorChain(parents),
                breedingMethod |-> method,
                mutations |-> mutations],
   genome |-> genome,
   fitness |-> createInitialFitness,
   state |-> DORMANT]

\* The child breed builds from the resolved parents, the mutated genome and
\* the mutation records.
BreedChild(parents, method, id, genome, mutations) ==
  [id |-> id, type |-> parents[1].type,
   lineage |-> [generation |-> MaxGeneration(parents) + 1,
                parents |-> [i \in 1..Len(parents) |-> parents[i].id],
                ancestors |-> buildAncestorChain(parents),
                breedingMethod |-> method,
                mutations |-> mutations],
   genome |-> genome,
   fitness |-> createInitialFitness,
   state |-> DORMANT]

\* The methods Math.random() < crossoverRate can draw.
DrawableMethods ==
  (IF config.crossoverRate > 0 THEN {"crossover"} ELSE {})
    \cup (IF config.crossoverRate < 100 THEN {"asexual"} ELSE {})

\* The parent ids performBreeding can draw for `method` from `elite`.
DrawableParents(method, elite) ==
  IF method = "crossover" /\ Len(elite) >= 2
  THEN { <<elite[i], elite[j]>> : i, j \in 1..Len(elite) }
  ELSE { <<elite[i]>> : i \in 1..Len(elite) }

-----------------------------------------------------------------------------
\* Reproduction and mutation.
\*
\* A `draw` holds the values Math.random() returns to one breeding of one
\* child, in percent (0..99): point for the crossover point, reg for the
\* choice of regulatory genes, picks[i] for the parent of gene i in
\* multi-parent breeding, gates[i] for the mutation test of gene i, insertGate
\* and insertValue for the novel gene; deltas[i] is gaussianRandom() * sigma
\* for gene i, in hundredths.

Min(a, b) == IF a <= b THEN a ELSE b

\* The value a draw holds for gene i; the values repeat for longer genomes.
DrawAt(values, i) ==
  values[((i - 1) % Len(values)) + 1]

\* genes.map(g => ({ ...g })): the copies, which are new objects.
CopiedGenes(refs, h) ==
  [i \in 1..Len(refs) |-> h[refs[i]]]

RefsFrom(first, n) ==
  [i \in 1..n |-> first + i - 1]

\* A genome of fresh copies of the genes coreSource and regSource refer to,
\* with the expression modifiers `modifiers` and checksum '', and the heap
\* holding the copies.
FreshGenome(coreSource, regSource, modifiers, h) ==
  [heap |-> h \o CopiedGenes(coreSource, h) \o CopiedGenes(regSource, h),
   genome |-> [coreGenes |-> RefsFrom(Len(h) + 1, Len(coreSource)),
               regulatoryGenes |->
                 RefsFrom(Len(h) + Len(coreSource) + 1, Len(regSource)),
               expressionModifiers |-> modifiers,
               checksum |-> <<>>]]

\* asexualReproduction handing out the parent's own gene objects.
asexualReproductionShared(parentGenome, h) ==
  [heap |-> h, genome |-> [parentGenome EXCEPT !.checksum = <<>>]]

asexualReproduction(parentGenome, h) ==
  FreshGenome(parentGenome.coreGenes, parentGenome.regulatoryGenes,
              parentGenome.expressionModifiers, h)

\* Math.floor(Math.random() * n)
RandomIndex(random, n) ==
  (random * n) \div 100

\* array.slice(from), from counted from 0.
SliceFrom(s, from) ==
  SubSeq(s, from + 1, Len(s))

\* crossover with the head taken from genome2 and the tail from genome1.
crossoverSwapped(genome1, genome2, draw, h) ==
  LET crossoverPoint == RandomIndex(draw.point, Len(genome1.coreGenes))
  IN  FreshGenome(
        FirstN(genome2.coreGenes, crossoverPoint)
          \o SliceFrom(genome1.coreGenes, crossoverPoint),
        IF draw.reg < 50 THEN genome1.regulatoryGenes ELSE genome2.regulatoryGenes,
        FirstN(genome1.expressionModifiers,
               Len(genome1.expressionModifiers) \div 2)
          \o SliceFrom(genome2.expressionModifiers,
                       Len(genome2.expressionModifiers) \div 2),
        h)

crossover(genome1, genome2, draw, h) ==
  LET crossoverPoint == RandomIndex(draw.point, Len(genome1.coreGenes))
  IN  FreshGenome(
        FirstN(genome1.coreGenes, crossoverPoint)
          \o SliceFrom(genome2.coreGenes, crossoverPoint),
        IF draw.reg < 50 THEN genome1.regulatoryGenes ELSE genome2.regulatoryGenes,
        FirstN(genome1.expressionModifiers,
               Len(genome1.expressionModifiers) \div 2)
          \o SliceFrom(genome2.expressionModifiers,
                       Len(genome2.expressionModifiers) \div 2),
        h)

\* The genes multiParentBreeding pushes: gene i of a randomly picked parent,
\* when that parent has a gene i.
RECURSIVE PickedGenes(_, _, _)
PickedGenes(i, genomes, draw) ==
  IF i > Len(genomes[1].coreGenes) THEN <<>>
  ELSE LET parent == genomes[RandomIndex(DrawAt(draw.picks, i), Len(genomes)) + 1]
       IN  (IF i <= Len(parent.coreGenes) THEN <<parent.coreGenes[i]>> ELSE <<>>)
             \o PickedGenes(i + 1, genomes, draw)

multiParentBreeding(genomes, draw, h) ==
  FreshGenome(PickedGenes(1, genomes, draw),
              genomes[RandomIndex(draw.reg, Len(genomes)) + 1].regulatoryGenes,
              <<>>, h)

\* What gene.value becomes in mutateGene.
MutatedValue(gene, delta) ==
  IF gene.type = "parameter" /\ gene.value \in Int
  THEN Max(0, Min(100, gene.value + delta))
  ELSE IF gene.type = "switch" /\ gene.value \in BOOLEAN
  THEN ~gene.value
  ELSE gene.value

\* The magnitude mutateGene computes, in hundredths.
MutationMagnitude(gene, delta) ==
  IF gene.type = "parameter" /\ gene.value \in Int
  THEN (IF delta < 0 THEN -delta ELSE delta)
  ELSE IF gene.type = "switch" /\ gene.value \in BOOLEAN
  THEN 100
  ELSE 0

\* mutateGene: the gene changed in place; a record only when magnitude > 0.
mutateGene(ref, delta, h) ==
  [heap |-> [h EXCEPT ![ref].value = MutatedValue(h[ref], delta)],
   mutations |->
     IF MutationMagnitude(h[ref], delta) > 0
     THEN << [type |-> "parameter", target |-> h[ref].id,
              magnitude |-> MutationMagnitude(h[ref], delta)] >>
     ELSE <<>>]

\* The loop of applyMutations without the test of gene.mutable.
RECURSIVE MutateEveryCoreGene(_, _, _, _, _, _)
MutateEveryCoreGene(i, coreGenes, mutationRate, draw, h, mutations) ==
  IF i > Len(coreGenes) THEN [heap |-> h, mutations |-> mutations]
  ELSE IF DrawAt(draw.gates, i) < mutationRate
  THEN LET m == mutateGene(coreGenes[i], DrawAt(draw.deltas, i), h)
       IN  MutateEveryCoreGene(i + 1, coreGenes, mutationRate, draw, m.heap,
                               mutations \o m.mutations)
  ELSE MutateEveryCoreGene(i + 1, coreGenes, mutationRate, draw, h, mutations)

\* The loop of applyMutations over genome.coreGenes, from gene i on.
RECURSIVE MutateCoreGenes(_, _, _, _, _, _)
MutateCoreGenes(i, coreGenes, mutationRate, draw, h, mutations) ==
  IF i > Len(coreGenes) THEN [heap |-> h, mutations |-> mutations]
  ELSE IF h[coreGenes[i]].mutable /\ DrawAt(draw.gates, i) < mutationRate
  THEN LET m == mutateGene(coreGenes[i], DrawAt(draw.deltas, i), h)
       IN  MutateCoreGenes(i + 1, coreGenes, mutationRate, draw, m.heap,
                           mutations \o m.mutations)
  ELSE MutateCoreGenes(i + 1, coreGenes, mutationRate, draw, h, mutations)

\* `gene-${Date.now()}`
NovelGeneId(now) ==
  IF now = 0 THEN "gene-now" ELSE "gene-later"

\* The gene applyMutations may add.
NovelGene(draw) ==
  [id |-> NovelGeneId(draw.now), type |-> "parameter", value |-> draw.insertValue,
   mutable |-> TRUE]

\* applyMutations with the checksum taken before the genes are mutated.
applyMutationsChecksumFirst(genome, mutationRate, draw, h) ==
  LET looped == MutateCoreGenes(1, genome.coreGenes, mutationRate, draw, h, <<>>)
      inserts == draw.insertGate * 10 < mutationRate
      heapAfter == IF inserts THEN Append(looped.heap, NovelGene(draw))
                   ELSE looped.heap
      coreGenes == IF inserts THEN Append(genome.coreGenes, Len(heapAfter))
                   ELSE genome.coreGenes
  IN  [heap |-> heapAfter,
       genome |-> [genome EXCEPT
                     !.coreGenes = coreGenes,
                     !.checksum = calculateChecksum(genome.coreGenes,
                                                    genome.regulatoryGenes, h)],
       mutations |->
         IF inserts
         THEN Append(looped.mutations,
                     [type |-> "insertion", target |-> NovelGene(draw).id,
                      magnitude |-> 100])
         ELSE looped.mutations]

\* applyMutations: the genome mutated in place, and the mutation records.
applyMutations(genome, mutationRate, draw, h) ==
  LET looped == MutateCoreGenes(1, genome.coreGenes, mutationRate, draw, h, <<>>)
      inserts == draw.insertGate * 10 < mutationRate
      heapAfter == IF inserts THEN Append(looped.heap, NovelGene(draw))
                   ELSE looped.heap
      coreGenes == IF inserts THEN Append(genome.coreGenes, Len(heapAfter))
                   ELSE genome.coreGenes
  IN  [heap |-> heapAfter,
       genome |-> [genome EXCEPT
                     !.coreGenes = coreGenes,
                     !.checksum = calculateChecksum(coreGenes,
                                                    genome.regulatoryGenes,
                                                    heapAfter)],
       mutations |->
         IF inserts
         THEN Append(looped.mutations,
                     [type |-> "insertion", target |-> NovelGene(draw).id,
                      magnitude |-> 100])
         ELSE looped.mutations]

\* The switch of breed over request.method.
ChildGenome(parents, method, draw, h) ==
  CASE method = "crossover" ->
         crossover(parents[1].genome,
                   IF Len(parents) >= 2 THEN parents[2].genome
                   ELSE parents[1].genome,
                   draw, h)
    [] method = "multi-parent" ->
         multiParentBreeding([i \in 1..Len(parents) |-> parents[i].genome], draw, h)
    [] OTHER -> asexualReproduction(parents[1].genome, h)

\* One iteration of the offspring loop of breed: the heap and the child.
BreedOne(parents, method, mutationRate, draw, id, h) ==
  LET born == ChildGenome(parents, method, draw, h)
      mutated == applyMutations(born.genome, mutationRate, draw, born.heap)
  IN  [heap |-> mutated.heap,
       child |-> BreedChild(parents, method, id, mutated.genome,
                            mutated.mutations)]

-----------------------------------------------------------------------------
\* updatePopulationStatistics and checkForEmergence.

RECURSIVE SumOverall(_)
SumOverall(ks) ==
  IF ks = <<>> THEN 0 ELSE ks[1].fitness.overall + SumOverall(Tail(ks))

RECURSIVE MaxOverall(_)
MaxOverall(ks) ==
  IF Len(ks) = 1 THEN ks[1].fitness.overall
  ELSE Max(ks[1].fitness.overall, MaxOverall(Tail(ks)))

LastN(s, n) ==
  IF Len(s) <= n THEN s ELSE SubSeq(s, Len(s) - n + 1, Len(s))

\* The population after updatePopulationStatistics (the quotient of the average
\* is floored; diversityIndex is kept as the fraction num / den).
updatePopulationStatistics(pop) ==
  IF Len(pop.kernels) = 0
  THEN [pop EXCEPT !.statistics.averageFitness = 0, !.statistics.bestFitness = 0]
  ELSE LET avg == SumOverall(pop.kernels) \div Len(pop.kernels)
       IN  [pop EXCEPT
              !.statistics.averageFitness = avg,
              !.statistics.bestFitness = MaxOverall(pop.kernels),
              !.statistics.fitnessTrend = LastN(Append(@, avg), TrendLimit),
              !.statistics.diversityIndex =
                 [num |-> Cardinality({ pop.kernels[i].genome.checksum :
                                          i \in 1..Len(pop.kernels) }),
                  den |-> Len(pop.kernels)],
              !.statistics.activeCount =
                 Len(SelectSeq(pop.kernels, LAMBDA k : k.state = ACTIVE))]

RECURSIVE SumSeq(_)
SumSeq(s) ==
  IF s = <<>> THEN 0 ELSE s[1] + SumSeq(Tail(s))

\* trend.slice(-10, -5)
OlderSlice(trend) ==
  IF Len(trend) <= 5 THEN <<>>
  ELSE SubSeq(trend, Max(Len(trend) - 10, 0) + 1, Len(trend) - 5)

\* recentAvg >= olderAvg * 1.2
ImprovedOrEqual(recent, older) ==
  SumSeq(recent) * Len(older) * 10 >= SumSeq(older) * Len(recent) * 12

\* recentAvg > olderAvg * 1.2, cross-multiplied: recentAvg is the sum of the
\* last five samples over 5, olderAvg the sum of the older slice over its length.
Improved(recent, older) ==
  SumSeq(recent) * Len(older) * 10 > SumSeq(older) * Len(recent) * 12

Emerges(trend) ==
  /\ Len(trend) >= 5
  /\ OlderSlice(trend) # <<>>
  /\ Improved(LastN(trend, 5), OlderSlice(trend))

\* (recentAvg - olderAvg) / olderAvg, as the fraction num / den.
Significance(recent, older) ==
  [num |-> SumSeq(recent) * Len(older) - SumSeq(older) * Len(recent),
   den |-> SumSeq(older) * Len(recent)]

\* The EmergenceEvent pushed for a population with this trend.
EmergenceEvent(pop) ==
  [type |-> "capability", population |-> pop.name, index |-> 0,
   significance |-> Significance(LastN(pop.statistics.fitnessTrend, 5),
                                 OlderSlice(pop.statistics.fitnessTrend))]

\* The events checkForEmergence appends, for the populations from number p on.
RECURSIVE checkForEmergence(_, _)
checkForEmergence(pops, p) ==
  IF p > Len(pops) THEN <<>>
  ELSE (IF Emerges(pops[p].statistics.fitnessTrend)
        THEN << [EmergenceEvent(pops[p]) EXCEPT !.index = p] >>
        ELSE <<>>)
         \o checkForEmergence(pops, p + 1)

-----------------------------------------------------------------------------
\* Handlers in progress.

OntogenesisEventType ==
  {"kernel-created", "kernel-activated", "kernel-deprecated", "breeding-complete",
   "generation-complete", "emergence-detected", "population-updated"}

\* Listeners a client registers: one throws whenever it is called, one returns.
Listeners == { [id |-> 1, throws |-> TRUE], [id |-> 2, throws |-> FALSE] }

\* forEach over the listeners from number i on with no try around the call:
\* the first exception leaves the loop.
RECURSIVE forEachUnguarded(_, _, _)
forEachUnguarded(type, listeners, i) ==
  IF i > Len(listeners) THEN [invoked |-> <<>>, uncaught |-> FALSE]
  ELSE LET call == [type |-> type, listener |-> listeners[i].id,
                    threw |-> listeners[i].throws]
           rest == forEachUnguarded(type, listeners, i + 1)
       IN  IF call.threw
           THEN [invoked |-> <<call>>, uncaught |-> TRUE]
           ELSE [invoked |-> <<call>> \o rest.invoked, uncaught |-> rest.uncaught]

\* forEach over the listeners from number i on, each called inside try/catch:
\* the calls made, and whether an exception left the loop.
RECURSIVE forEach(_, _, _)
forEach(type, listeners, i) ==
  IF i > Len(listeners) THEN [invoked |-> <<>>, uncaught |-> FALSE]
  ELSE LET call == [type |-> type, listener |-> listeners[i].id,
                    threw |-> listeners[i].throws]
           rest == forEach(type, listeners, i + 1)
       IN  [invoked |-> <<call>> \o rest.invoked, uncaught |-> rest.uncaught]

\* this.emitEvent(type, data)
emitEvent(type) == forEach(type, eventListeners[type], 1)

\* The emitEvent calls of one operation, in order, up to an exception that
\* leaves one of them.
RECURSIVE emitEvents(_, _)
emitEvents(types, i) ==
  IF i > Len(types) THEN [invoked |-> <<>>, uncaught |-> FALSE]
  ELSE LET first == emitEvent(types[i])
           rest == emitEvents(types, i + 1)
       IN  IF first.uncaught THEN first
           ELSE [invoked |-> first.invoked \o rest.invoked,
                 uncaught |-> rest.uncaught]

\* An event evolutionCycle passes to emitEvent: the number of the population
\* it is about (0 for none), state.globalGeneration when it is emitted, and the
\* listener calls emitEvent makes for it.
Emitted(type, p, generation) ==
  [type |-> type, population |-> p, generation |-> generation,
   invoked |-> emitEvent(type).invoked]


NoPopulation ==
  [name |-> "none", generation |-> 0, kernels |-> <<>>,
   statistics |-> [totalCreated |-> 0, activeCount |-> 0, archivedCount |-> 0,
                   averageFitness |-> 0, bestFitness |-> 0, fitnessTrend |-> <<>>,
                   diversityIndex |-> [num |-> 0, den |-> 1]],
   capacity |-> 0]

\* initializePopulations at type number idx, with `pop` under construction.
SeedFrame(idx, pop, emitting) ==
  [kind |-> "seed", idx |-> idx, phase |-> "create", emitting |-> emitting,
   pop |-> pop, elite |-> <<>>, currentSize |-> 0, needed |-> 0]

\* evolutionCycle at population number idx; elite, currentSize and the count
\* of kernels still to breed are the locals of performBreeding.
TickFrame(idx, phase, emitting, elite, currentSize, needed) ==
  [kind |-> "tick", idx |-> idx, phase |-> phase, emitting |-> emitting,
   pop |-> NoPopulation, elite |-> elite, currentSize |-> currentSize,
   needed |-> needed]

Top == stack[Len(stack)]
Below == SubSeq(stack, 1, Len(stack) - 1)
ReplaceTop(f) == Below \o <<f>>

InHandler(kind) == stack # <<>> /\ Top.kind = kind

\* The frames left once evolutionCycle has emitted these events and goes on
\* with frame f: an exception leaving emitEvent would end the callback.
AfterEmit(types, f) ==
  IF emitEvents(types, 1).uncaught THEN <<>> ELSE ReplaceTop(f)

\* How the cycle stands once it has emitted these events.
TickAfterEmit(types) ==
  IF emitEvents(types, 1).uncaught THEN "threw" ELSE lastTick

\* A timer callback that could interrupt a running handler.
EventLoopPreempts ==
  TRUE

\* A timer callback is run by the event loop, only when no handler is running.
EventLoopIdle ==
  stack = <<>>

\* A call from outside needs an idle event loop; a listener calls from inside
\* the emitEvent of the handler in progress.
FromOutside == stack = <<>>
FromListener == stack # <<>> /\ Top.emitting

Called(kind, op, ret, events) ==
  /\ budget[kind] > 0
  /\ budget' = [budget EXCEPT ![kind] = @ - 1]
  /\ lastCall' = [op |-> op,
                  ret |-> IF emitEvents(events, 1).uncaught THEN "threw" ELSE ret,
                  events |-> events,
                  invoked |-> emitEvents(events, 1).invoked]

\* setInterval(() => this.evolutionCycle(), generationInterval)
ScheduleTimer ==
  /\ timers' = timers + 1
  /\ evolutionInterval' = TRUE

-----------------------------------------------------------------------------
\* startEvolution, stopEvolution.

\* startEvolution without its `if (this.state.isEvolving) return`.
StartEvolutionUnguarded ==
  /\ FromOutside \/ FromListener
  /\ Called("scheduler", "startEvolution",
            IF isEvolving THEN "already-running" ELSE "started", <<>>)
  /\ isEvolving' = TRUE
  /\ IF Len(populations) = 0
     THEN /\ stack' = Append(stack,
                             SeedFrame(1, NewPopulation(KernelTypes[1]), FALSE))
          /\ UNCHANGED <<evolutionInterval, timers>>
     ELSE /\ ScheduleTimer
          /\ UNCHANGED stack
  /\ UNCHANGED <<populations, archive, config, globalGeneration,
                 totalKernelsCreated, emergenceEvents, nextId, lastTick,
                 everDeprecated>>
  /\ UNCHANGED <<heap, returned, pure, cycleEvents, eventListeners>>

\* startEvolution up to the point where it seeds or schedules the timer.
StartEvolution ==
  /\ FromOutside \/ FromListener
  /\ IF isEvolving
     THEN /\ Called("scheduler", "startEvolution", "already-running", <<>>)
          /\ UNCHANGED <<engine, evolutionInterval, timers, nextId, stack,
                         lastTick, everDeprecated>>
     ELSE /\ Called("scheduler", "startEvolution", "started", <<>>)
          /\ isEvolving' = TRUE
          /\ IF Len(populations) = 0
             THEN /\ stack' = Append(stack,
                                     SeedFrame(1, NewPopulation(KernelTypes[1]), FALSE))
                  /\ UNCHANGED <<evolutionInterval, timers>>
             ELSE /\ ScheduleTimer
                  /\ UNCHANGED stack
          /\ UNCHANGED <<populations, archive, config, globalGeneration,
                         totalKernelsCreated, emergenceEvents, nextId,
                         lastTick, everDeprecated>>
  /\ UNCHANGED <<heap, returned, pure, cycleEvents, eventListeners>>

\* One iteration of the founder loop: createKernel(template), which emits
\* kernel-created, then the push to the population under construction.
SeedCreateKernel ==
  /\ InHandler("seed")
  /\ Len(Top.pop.kernels) < FounderCount
  /\ LET type == KernelTypes[Top.idx]
         kernel == NewKernel(nextId, type, TemplateGenome(type, <<>>, heap))
         pop == [Top.pop EXCEPT !.kernels = Append(@, kernel),
                                !.statistics.totalCreated = @ + 1]
     IN  stack' = ReplaceTop(SeedFrame(Top.idx, pop, TRUE))
  /\ nextId' = nextId + 1
  /\ totalKernelsCreated' = totalKernelsCreated + 1
  /\ UNCHANGED <<populations, archive, config, globalGeneration,
                 emergenceEvents, isEvolving, evolutionInterval, timers,
                 budget, lastCall, lastTick, everDeprecated, heap, returned,
                 pure, cycleEvents, eventListeners>>

\* this.state.populations.push(population); after the last type
\* initializePopulations returns and startEvolution schedules the timer.
SeedPushPopulation ==
  /\ InHandler("seed")
  /\ Len(Top.pop.kernels) = FounderCount
  /\ populations' = Append(populations, Top.pop)
  /\ IF Top.idx < Len(KernelTypes)
     THEN /\ stack' = ReplaceTop(
                        SeedFrame(Top.idx + 1,
                                  NewPopulation(KernelTypes[Top.idx + 1]), FALSE))
          /\ UNCHANGED <<evolutionInterval, timers>>
     ELSE /\ stack' = Below
          /\ ScheduleTimer
  /\ UNCHANGED <<archive, config, globalGeneration, totalKernelsCreated,
                 emergenceEvents, isEvolving, nextId, budget, lastCall,
                 lastTick, everDeprecated>>
  /\ UNCHANGED <<heap, returned, pure, cycleEvents, eventListeners>>

StopEvolution ==
  /\ FromOutside \/ FromListener
  /\ Called("scheduler", "stopEvolution",
            IF isEvolving THEN "stopped" ELSE "already-stopped", <<>>)
  /\ IF evolutionInterval
     THEN timers' = timers - 1 /\ evolutionInterval' = FALSE
     ELSE UNCHANGED <<timers, evolutionInterval>>
  /\ isEvolving' = FALSE
  /\ UNCHANGED <<populations, archive, config, globalGeneration,
                 totalKernelsCreated, emergenceEvents, nextId, stack,
                 lastTick, everDeprecated>>
  /\ UNCHANGED <<heap, returned, pure, cycleEvents, eventListeners>>

-----------------------------------------------------------------------------
\* evolutionCycle.

\* The interval timer fires and the event loop runs evolutionCycle.
TickStart ==
  /\ EventLoopIdle
  /\ timers > 0
  /\ budget.ticks > 0
  /\ budget' = [budget EXCEPT !.ticks = @ - 1]
  /\ lastTick' = "running"
  /\ stack' = Append(stack,
                     TickFrame(1, IF Len(populations) = 0 THEN "finish" ELSE "select",
                               FALSE, <<>>, 0, 0))
  /\ cycleEvents' = <<>>
  /\ UNCHANGED <<engine, evolutionInterval, timers, nextId, lastCall, everDeprecated>>
  /\ UNCHANGED <<heap, returned, pure, eventListeners>>

\* performSelection(population), then the head of performBreeding: the elite
\* slice and newKernelsNeeded.
TickSelect ==
  /\ InHandler("tick")
  /\ Top.phase = "select"
  /\ LET p == Top.idx
         pop == performSelection(populations[p], config.archiveThreshold)
     IN  /\ populations' = [populations EXCEPT ![p] = pop]
         /\ archive' = archive \o SelectionArchived(populations[p], config.archiveThreshold)
         /\ stack' = ReplaceTop(TickFrame(p, "breed", FALSE, EliteOf(pop),
                                          Len(pop.kernels), newKernelsNeeded(pop)))
  /\ UNCHANGED <<config, globalGeneration, totalKernelsCreated, emergenceEvents,
                 isEvolving, evolutionInterval, timers, nextId, budget, lastCall,
                 lastTick, everDeprecated>>
  /\ UNCHANGED <<heap, returned, pure, cycleEvents, eventListeners>>

\* One iteration of the breeding loop.  With an empty elite, elite[0] is
\* undefined and reading its id throws a TypeError, which ends the callback.
TickBreedOne ==
  /\ InHandler("tick")
  /\ Top.phase = "breed"
  /\ Top.needed > 0
  /\ IF Top.elite = <<>>
     THEN /\ stack' = <<>>
          /\ lastTick' = "threw"
          /\ UNCHANGED <<engine, nextId, heap, cycleEvents>>
     ELSE \E method \in DrawableMethods :
          \E parentIds \in DrawableParents(method, Top.elite) :
          \E draw \in budget.draws :
            LET p == Top.idx
                parents == ResolveParents(parentIds)
                bred == BreedOne(parents, method, config.baseMutationRate, draw,
                                 nextId, heap)
            IN  /\ IF Len(parents) < 1
                   THEN /\ stack' = ReplaceTop(TickFrame(p, "breed", FALSE, Top.elite,
                                                         Top.currentSize,
                                                         Top.needed - 1))
                        /\ UNCHANGED <<engine, nextId, heap, cycleEvents, lastTick>>
                   ELSE /\ populations' =
                             [populations EXCEPT
                                ![p].kernels = Append(@, bred.child),
                                ![p].statistics.totalCreated = @ + 1]
                        /\ heap' = bred.heap
                        /\ nextId' = nextId + 1
                        /\ totalKernelsCreated' = totalKernelsCreated + 1
                        /\ cycleEvents' =
                             Append(cycleEvents,
                                    Emitted("breeding-complete", p, globalGeneration))
                        /\ stack' = AfterEmit(<<"breeding-complete">>,
                                              TickFrame(p, "breed", TRUE, Top.elite,
                                                        Top.currentSize,
                                                        Top.needed - 1))
                        /\ lastTick' = TickAfterEmit(<<"breeding-complete">>)
                        /\ UNCHANGED <<archive, config, globalGeneration,
                                       emergenceEvents, isEvolving>>
  /\ UNCHANGED <<evolutionInterval, timers, budget, lastCall, everDeprecated,
                 returned, pure, eventListeners>>

\* The statistics taken without waiting for performBreeding to finish.
TickStatsBeforeBreeding ==
  /\ InHandler("tick")
  /\ Top.phase = "breed"
  /\ Top.needed >= 0
  /\ LET p == Top.idx
         emitted == Len(populations[p].kernels) > 0
     IN  /\ populations' =
               [populations EXCEPT
                  ![p] = [updatePopulationStatistics(@) EXCEPT !.generation = @ + 1]]
         /\ cycleEvents' =
               (IF emitted
                THEN Append(cycleEvents, Emitted("population-updated", p,
                                            globalGeneration))
                ELSE cycleEvents)
         /\ stack' = AfterEmit(
                       IF emitted THEN <<"population-updated">> ELSE <<>>,
                       IF p < Len(populations)
                       THEN TickFrame(p + 1, "select", emitted, <<>>, 0, 0)
                       ELSE TickFrame(p, "finish", emitted, <<>>, 0, 0))
         /\ lastTick' = TickAfterEmit(IF emitted THEN <<"population-updated">>
                                      ELSE <<>>)
  /\ UNCHANGED <<archive, config, globalGeneration, totalKernelsCreated,
                 emergenceEvents, isEvolving, evolutionInterval, timers, nextId,
                 budget, lastCall, everDeprecated>>
  /\ UNCHANGED <<heap, returned, pure, eventListeners>>

\* updatePopulationStatistics(population); population.generation++
TickStats ==
  /\ InHandler("tick")
  /\ Top.phase = "breed"
  /\ Top.needed = 0
  /\ LET p == Top.idx
         emitted == Len(populations[p].kernels) > 0
     IN  /\ populations' =
               [populations EXCEPT
                  ![p] = [updatePopulationStatistics(@) EXCEPT !.generation = @ + 1]]
         /\ cycleEvents' =
               (IF emitted
                THEN Append(cycleEvents, Emitted("population-updated", p,
                                            globalGeneration))
                ELSE cycleEvents)
         /\ stack' = AfterEmit(
                       IF emitted THEN <<"population-updated">> ELSE <<>>,
                       IF p < Len(populations)
                       THEN TickFrame(p + 1, "select", emitted, <<>>, 0, 0)
                       ELSE TickFrame(p, "finish", emitted, <<>>, 0, 0))
         /\ lastTick' = TickAfterEmit(IF emitted THEN <<"population-updated">>
                                      ELSE <<>>)
  /\ UNCHANGED <<archive, config, globalGeneration, totalKernelsCreated,
                 emergenceEvents, isEvolving, evolutionInterval, timers, nextId,
                 budget, lastCall, everDeprecated>>
  /\ UNCHANGED <<heap, returned, pure, eventListeners>>

\* checkForEmergence, globalGeneration++, emit generation-complete.
TickFinish ==
  /\ InHandler("tick")
  /\ Top.phase = "finish"
  /\ LET detected == IF config.enableEmergence
                      THEN checkForEmergence(populations, 1)
                      ELSE <<>>
     IN  /\ emergenceEvents' = emergenceEvents \o detected
         /\ cycleEvents' =
               cycleEvents
                 \o [i \in 1..Len(detected) |->
                       Emitted("emergence-detected", detected[i].index,
                               globalGeneration)]
                 \o << Emitted("generation-complete", 0, globalGeneration + 1) >>
         /\ stack' = AfterEmit([i \in 1..Len(detected) |-> "emergence-detected"]
                                 \o <<"generation-complete">>,
                               TickFrame(Top.idx, "return", TRUE, <<>>, 0, 0))
         /\ lastTick' = TickAfterEmit([i \in 1..Len(detected) |->
                                         "emergence-detected"]
                                        \o <<"generation-complete">>)
  /\ globalGeneration' = globalGeneration + 1
  /\ UNCHANGED <<populations, archive, config, totalKernelsCreated, isEvolving,
                 evolutionInterval, timers, nextId, budget, lastCall,
                 everDeprecated>>
  /\ UNCHANGED <<heap, returned, pure, eventListeners>>

\* evolutionCycle returns to the event loop.
TickReturn ==
  /\ InHandler("tick")
  /\ Top.phase = "return"
  /\ stack' = Below
  /\ lastTick' = "completed"
  /\ UNCHANGED <<engine, evolutionInterval, timers, nextId, budget, lastCall,
                 everDeprecated>>
  /\ UNCHANGED <<heap, returned, pure, cycleEvents, eventListeners>>

-----------------------------------------------------------------------------
\* The public operations on kernels.

\* A BreedingResult; the kernel of createKernel or getBestKernel is held as the
\* only offspring.
\* addEventListener(type, listener): a Set keeps one entry per listener, in
\* insertion order.
AddEventListener(type, listener) ==
  /\ FromOutside
  /\ Called("subscribe", "addEventListener", "void", <<>>)
  /\ eventListeners' =
       [eventListeners EXCEPT
          ![type] = IF \E i \in 1..Len(@) : @[i] = listener
                    THEN @ ELSE Append(@, listener)]
  /\ UNCHANGED <<engine, evolutionInterval, timers, nextId, stack, lastTick,
                 everDeprecated, heap, returned, pure, cycleEvents>>

\* removeEventListener(type, listener)
RemoveEventListener(type, listener) ==
  /\ FromOutside
  /\ Called("subscribe", "removeEventListener", "void", <<>>)
  /\ eventListeners' =
       [eventListeners EXCEPT ![type] = SelectSeq(@, LAMBDA l : l # listener)]
  /\ UNCHANGED <<engine, evolutionInterval, timers, nextId, stack, lastTick,
                 everDeprecated, heap, returned, pure, cycleEvents>>

Result(op, offspring, successRate, mutationsApplied, novelGenes) ==
  [op |-> op, offspring |-> offspring, successRate |-> successRate,
   mutationsApplied |-> mutationsApplied, novelGenes |-> novelGenes]

\* The number n / d of JavaScript for n >= 0 and d >= 0, in percent: 0 / 0
\* is NaN.
Ratio(n, d) ==
  IF d = 0 THEN [isNaN |-> TRUE, percent |-> 0]
  ELSE [isNaN |-> FALSE, percent |-> (100 * n) \div d]

NothingReturned ==
  Result("none", <<>>, Ratio(0, 1), 0, 0)

NothingApplied ==
  [fn |-> "none", parents |-> <<>>, result |-> <<>>]

\* The core genes a caller passes as customGenome.coreGenes: none, or one.
CustomCoreGenes ==
  { <<>>, << Gene("custom", 50) >> }

\* createKernel called from outside: the kernel goes to the caller, not to a
\* population.  The genes of customGenome are the caller's objects.
CreateKernel(type, custom) ==
  /\ FromOutside
  /\ Called("factory", "createKernel", "kernel", <<"kernel-created">>)
  /\ heap' = heap \o custom
  /\ LET genome == TemplateGenome(type, RefsFrom(Len(heap) + 1, Len(custom)), heap')
     IN  returned' = Result("createKernel", << NewKernel(nextId, type, genome) >>,
                            Ratio(0, 1), 0, 0)
  /\ nextId' = nextId + 1
  /\ totalKernelsCreated' = totalKernelsCreated + 1
  /\ UNCHANGED <<populations, archive, config, globalGeneration, emergenceEvents,
                 isEvolving, evolutionInterval, timers, stack, lastTick,
                 everDeprecated, pure, cycleEvents, eventListeners>>

BreedMethods == {"asexual", "crossover", "multi-parent"}
OffspringCounts == {0, 1, 2}
\* The requests the callers of this run pass to breed.
BreedRequests ==
  { [parents |-> parents, method |-> method, mutationRate |-> mutationRate,
     offspringCount |-> offspringCount] :
      parents \in budget.parents, method \in BreedMethods,
      mutationRate \in budget.rates, offspringCount \in OffspringCounts }

\* The draws explored for a request: they vary where the request leaves the
\* mutation rate to the configuration and asks for offspring.
DrawListsFor(request) ==
  IF request.mutationRate = <<>> /\ request.offspringCount > 0
  THEN budget.drawLists
  ELSE QuietDrawLists

\* The kernel ids the callers of this run pass.
TargetIds == (1..budget.targets) \cup budget.later

\* The kernel ids passed to evaluateFitness: with inOrder the next of the
\* last budget.evaluate ids of TargetIds, one founder after the other.
EvaluateIds ==
  IF budget.inOrder
  THEN { id \in TargetIds : id = budget.targets + 1 - budget.evaluate }
  ELSE TargetIds

\* mutations.filter(m => m.type === 'insertion').length
Insertions(mutations) ==
  Len(SelectSeq(mutations, LAMBDA m : m.type = "insertion"))

\* The offspring loop of breed from child number i on: the heap, the offspring
\* and the two counters.
RECURSIVE BreedLoop(_, _, _, _, _, _, _)
BreedLoop(i, request, parents, draws, h, offspring, counters) ==
  IF i > request.offspringCount
  THEN [heap |-> h, offspring |-> offspring, totalMutations |-> counters[1],
        novelGenes |-> counters[2]]
  ELSE LET mutationRate == IF request.mutationRate = <<>>
                           THEN config.baseMutationRate
                           ELSE request.mutationRate[1]
           bred == BreedOne(parents, request.method, mutationRate, draws[i],
                            nextId + i - 1, h)
       IN  BreedLoop(i + 1, request, parents, draws, bred.heap,
                     Append(offspring, bred.child),
                     << counters[1] + Len(bred.child.lineage.mutations),
                        counters[2] + Insertions(bred.child.lineage.mutations) >>)

\* breed emitting breeding-complete before its test of parents.length.
BreedAlwaysCompleting(request, draws) ==
  /\ FromOutside
  /\ LET parents == ResolveParents(request.parents)
         loop == BreedLoop(1, request, parents, draws, heap, <<>>, <<0, 0>>)
     IN  IF Len(parents) < 1
         THEN /\ Called("factory", "breed", "no-offspring", <<"breeding-complete">>)
              /\ returned' = Result("breed", <<>>, Ratio(0, 1), 0, 0)
              /\ UNCHANGED <<nextId, totalKernelsCreated, heap>>
         ELSE /\ Called("factory", "breed", "offspring", <<"breeding-complete">>)
              /\ returned' = Result("breed", loop.offspring,
                                    Ratio(Len(loop.offspring), request.offspringCount),
                                    loop.totalMutations, loop.novelGenes)
              /\ heap' = loop.heap
              /\ nextId' = nextId + Len(loop.offspring)
              /\ totalKernelsCreated' = totalKernelsCreated + Len(loop.offspring)
  /\ UNCHANGED <<populations, archive, config, globalGeneration, emergenceEvents,
                 isEvolving, evolutionInterval, timers, stack, lastTick,
                 everDeprecated, pure, cycleEvents, eventListeners>>

\* breed called from outside: the offspring go to the caller, not to a population.
Breed(request, draws) ==
  /\ FromOutside
  /\ LET parents == ResolveParents(request.parents)
         loop == BreedLoop(1, request, parents, draws, heap, <<>>, <<0, 0>>)
     IN  IF Len(parents) < 1
         THEN /\ Called("factory", "breed", "no-offspring", <<>>)
              /\ returned' = Result("breed", <<>>, Ratio(0, 1), 0, 0)
              /\ UNCHANGED <<nextId, totalKernelsCreated, heap>>
         ELSE /\ Called("factory", "breed", "offspring", <<"breeding-complete">>)
              /\ returned' = Result("breed", loop.offspring,
                                    Ratio(Len(loop.offspring), request.offspringCount),
                                    loop.totalMutations, loop.novelGenes)
              /\ heap' = loop.heap
              /\ nextId' = nextId + Len(loop.offspring)
              /\ totalKernelsCreated' = totalKernelsCreated + Len(loop.offspring)
  /\ UNCHANGED <<populations, archive, config, globalGeneration, emergenceEvents,
                 isEvolving, evolutionInterval, timers, stack, lastTick,
                 everDeprecated, pure, cycleEvents, eventListeners>>

\* this.state.populations.find(p => p.name === type): its index, or 0.
FindPopulation(type) ==
  IF \E p \in 1..Len(populations) : populations[p].name = type
  THEN Least({ p \in 1..Len(populations) : populations[p].name = type })
  ELSE 0

\* getPopulation: the population object itself is handed to the caller.
GetPopulation(type) ==
  /\ FromOutside
  /\ Called("getter", "getPopulation",
            IF FindPopulation(type) = 0 THEN "null" ELSE "population", <<>>)
  /\ UNCHANGED <<engine, evolutionInterval, timers, nextId, stack, lastTick,
                 everDeprecated, heap, returned, pure, cycleEvents, eventListeners>>

\* The reduce taking the current kernel also when it ties with the best.
RECURSIVE BestFromLast(_, _)
BestFromLast(best, rest) ==
  IF rest = <<>> THEN best
  ELSE BestFromLast(IF rest[1].fitness.overall >= best.fitness.overall
                    THEN rest[1] ELSE best,
                    Tail(rest))

\* kernels.reduce((best, current) =>
\*   current.fitness.overall > best.fitness.overall ? current : best)
RECURSIVE BestFrom(_, _)
BestFrom(best, rest) ==
  IF rest = <<>> THEN best
  ELSE BestFrom(IF rest[1].fitness.overall > best.fitness.overall
                THEN rest[1] ELSE best,
                Tail(rest))

\* What getBestKernel returns, as a list: empty for null.
BestKernel(type) ==
  LET p == FindPopulation(type)
  IN  IF p = 0 \/ Len(populations[p].kernels) = 0 THEN <<>>
      ELSE << BestFrom(populations[p].kernels[1], Tail(populations[p].kernels)) >>

\* getBestKernel finding the best kernel by sorting population.kernels.
GetBestKernelSorting(type) ==
  /\ FromOutside
  /\ Called("getter", "getBestKernel",
            IF BestKernel(type) = <<>> THEN "null" ELSE "kernel", <<>>)
  /\ returned' = Result("getBestKernel", BestKernel(type), Ratio(0, 1), 0, 0)
  /\ populations' =
       [p \in 1..Len(populations) |->
          IF p = FindPopulation(type)
          THEN [populations[p] EXCEPT !.kernels = SortByFitness(@)]
          ELSE populations[p]]
  /\ UNCHANGED <<archive, config, globalGeneration, totalKernelsCreated,
                 emergenceEvents, isEvolving, evolutionInterval, timers, nextId,
                 stack, lastTick, everDeprecated, heap, pure, cycleEvents, eventListeners>>

GetBestKernel(type) ==
  /\ FromOutside
  /\ Called("getter", "getBestKernel",
            IF BestKernel(type) = <<>> THEN "null" ELSE "kernel", <<>>)
  /\ returned' = Result("getBestKernel", BestKernel(type), Ratio(0, 1), 0, 0)
  /\ UNCHANGED <<engine, evolutionInterval, timers, nextId, stack, lastTick,
                 everDeprecated, heap, pure, cycleEvents, eventListeners>>

\* An absent component read as 0.
ScoreOrZero(scores, name, old) ==
  IF name \in DOMAIN scores THEN scores[name] ELSE 0

\* scores.<name> !== undefined ? scores.<name> : the score the kernel has
Score(scores, name, old) ==
  IF name \in DOMAIN scores THEN scores[name] ELSE old

EvaluatedFitness(f, scores) ==
  LET g == [f EXCEPT
              !.performance = Score(scores, "performance", @),
              !.efficiency = Score(scores, "efficiency", @),
              !.reliability = Score(scores, "reliability", @),
              !.adaptability = Score(scores, "adaptability", @),
              !.innovation = Score(scores, "innovation", @)]
  IN  [g EXCEPT !.overall = calculateOverallFitness(g),
                !.evaluations = @ + 1]

EvaluateFitness(id, scores) ==
  /\ FromOutside
  /\ LET loc == findKernel(id)
     IN  IF loc.where = "nowhere"
         THEN /\ Called("evaluate", "evaluateFitness", "null", <<>>)
              /\ UNCHANGED <<populations, archive>>
         ELSE LET k == [KernelAt(loc) EXCEPT !.fitness = EvaluatedFitness(@, scores)]
              IN  /\ Called("evaluate", "evaluateFitness", "fitness", <<>>)
                  /\ populations' = PopulationsWith(loc, k)
                  /\ archive' = ArchiveWith(loc, k)
  /\ UNCHANGED <<config, globalGeneration, totalKernelsCreated, emergenceEvents,
                 isEvolving, evolutionInterval, timers, nextId, stack,
                 lastTick, everDeprecated>>
  /\ UNCHANGED <<heap, returned, pure, cycleEvents, eventListeners>>

\* The guard of activateKernel: no kernel, or a deprecated one.
ActivateRefused(loc) ==
  loc.where = "nowhere" \/ KernelAt(loc).state = DEPRECATED

ActivateKernel(id) ==
  /\ FromOutside
  /\ LET loc == findKernel(id)
     IN  IF ActivateRefused(loc)
         THEN /\ Called("lifecycle", "activateKernel", "false", <<>>)
              /\ UNCHANGED <<populations, archive>>
         ELSE LET k == [KernelAt(loc) EXCEPT !.state = ACTIVE]
              IN  /\ Called("lifecycle", "activateKernel", "true", <<"kernel-activated">>)
                  /\ populations' = PopulationsWith(loc, k)
                  /\ archive' = ArchiveWith(loc, k)
  /\ UNCHANGED <<config, globalGeneration, totalKernelsCreated, emergenceEvents,
                 isEvolving, evolutionInterval, timers, nextId, stack,
                 lastTick, everDeprecated>>
  /\ UNCHANGED <<heap, returned, pure, cycleEvents, eventListeners>>

\* deprecateKernel emitting kernel-deprecated before it looks the kernel up.
DeprecateKernelAnnouncing(id) ==
  /\ FromOutside
  /\ LET loc == findKernel(id)
     IN  IF loc.where = "nowhere"
         THEN /\ Called("lifecycle", "deprecateKernel", "false", <<"kernel-deprecated">>)
              /\ UNCHANGED <<populations, archive, everDeprecated>>
         ELSE LET k == [KernelAt(loc) EXCEPT !.state = DEPRECATED]
              IN  /\ Called("lifecycle", "deprecateKernel", "true", <<"kernel-deprecated">>)
                  /\ populations' = PopulationsWith(loc, k)
                  /\ archive' = ArchiveWith(loc, k)
                  /\ everDeprecated' = everDeprecated \cup {id}
  /\ UNCHANGED <<config, globalGeneration, totalKernelsCreated, emergenceEvents,
                 isEvolving, evolutionInterval, timers, nextId, stack, lastTick>>
  /\ UNCHANGED <<heap, returned, pure, cycleEvents, eventListeners>>

DeprecateKernel(id) ==
  /\ FromOutside
  /\ LET loc == findKernel(id)
     IN  IF loc.where = "nowhere"
         THEN /\ Called("lifecycle", "deprecateKernel", "false", <<>>)
              /\ UNCHANGED <<populations, archive, everDeprecated>>
         ELSE LET k == [KernelAt(loc) EXCEPT !.state = DEPRECATED]
              IN  /\ Called("lifecycle", "deprecateKernel", "true", <<"kernel-deprecated">>)
                  /\ populations' = PopulationsWith(loc, k)
                  /\ archive' = ArchiveWith(loc, k)
                  /\ everDeprecated' = everDeprecated \cup {id}
  /\ UNCHANGED <<config, globalGeneration, totalKernelsCreated, emergenceEvents,
                 isEvolving, evolutionInterval, timers, nextId, stack, lastTick>>
  /\ UNCHANGED <<heap, returned, pure, cycleEvents, eventListeners>>

-----------------------------------------------------------------------------
\* The engine.

\* createInitialState: the service after construction, for callers `calls` and helper input `input`.
ServiceInitOn(calls, input, genes) ==
  /\ config \in calls.configs
  /\ populations = <<>>
  /\ archive = <<>>
  /\ globalGeneration = 0
  /\ totalKernelsCreated = 0
  /\ emergenceEvents = <<>>
  /\ isEvolving = FALSE
  /\ evolutionInterval = FALSE
  /\ timers = 0
  /\ nextId = 1
  /\ stack = <<>>
  /\ budget = calls
  /\ lastCall = [op |-> "none", ret |-> "void", events |-> <<>>,
                 invoked |-> <<>>]
  /\ everDeprecated = {}
  /\ lastTick = "none"
  /\ heap = genes
  /\ returned = NothingReturned
  /\ pure = input
  /\ cycleEvents = <<>>
  /\ eventListeners = [type \in OntogenesisEventType |-> <<>>]

\* The service with the gene objects of the templates alone.
ServiceInit(calls, input) ==
  ServiceInitOn(calls, input, TemplateHeap)

Init ==
  \E calls \in Budgets : ServiceInit(calls, NothingApplied)

Next ==
  \/ StartEvolution
  \/ SeedCreateKernel
  \/ SeedPushPopulation
  \/ StopEvolution
  \/ TickStart
  \/ TickSelect
  \/ TickBreedOne
  \/ TickStats
  \/ TickFinish
  \/ TickReturn
  \/ \E type \in { KernelTypes[i] : i \in 1..Len(KernelTypes) },
        custom \in CustomCoreGenes : CreateKernel(type, custom)
  \/ \E request \in BreedRequests : \E draws \in DrawListsFor(request) :
        Breed(request, draws)
  \/ \E id \in EvaluateIds, scores \in budget.scores : EvaluateFitness(id, scores)
  \/ \E id \in TargetIds : ActivateKernel(id)
  \/ \E id \in TargetIds : DeprecateKernel(id)
  \/ \E type \in { KernelTypes[i] : i \in 1..Len(KernelTypes) } : GetPopulation(type)
  \/ \E type \in { KernelTypes[i] : i \in 1..Len(KernelTypes) } : GetBestKernel(type)
  \/ \E type \in budget.topics, listener \in Listeners :
        AddEventListener(type, listener)
  \/ \E type \in budget.topics, listener \in Listeners :
        RemoveEventListener(type, listener)

Spec == Init /\ [][Next]_vars

-----------------------------------------------------------------------------
\* buildAncestorChain applied on its own.
\*
\* The ancestor chains a parent can carry: chains buildAncestorChain returned,
\* so without duplicates and of at most 5 ids.
MaxParents == 3
ParentIds == {1, 2}
AncestorChains ==
  { <<>>, <<3>>, <<3, 4>>, <<2, 1>>, <<3, 4, 5, 6, 7>>, <<4, 8, 3, 9, 10>> }

\* A parent as buildAncestorChain reads it: its id and its lineage.ancestors.
ParentOf(id, chain) ==
  [id |-> id, lineage |-> [ancestors |-> chain]]

ParentInputs ==
  { ParentOf(id, chain) : id \in ParentIds, chain \in AncestorChains }

ParentSeqs ==
  UNION { [1..n -> ParentInputs] : n \in 1..MaxParents }

\* No caller and no timer acts.
NoCalls ==
  [scheduler |-> 0, evaluate |-> 0, lifecycle |-> 0, factory |-> 0, ticks |-> 0,
   targets |-> 0, scores |-> {}, draws |-> {}, drawLists |-> {}, rates |-> {},
   later |-> {}, parents |-> {}, getter |-> 0, inOrder |-> FALSE, configs |-> Configs,
     subscribe |-> 0, topics |-> {}]

AncestorInit ==
  \E parents \in ParentSeqs :
    ServiceInit(NoCalls, [fn |-> "none", parents |-> parents, result |-> <<>>])

\* this.buildAncestorChain(parents)
ApplyBuildAncestorChain ==
  /\ pure.fn = "none"
  /\ pure' = [pure EXCEPT !.fn = "buildAncestorChain",
                          !.result = buildAncestorChain(pure.parents)]
  /\ UNCHANGED <<engine, evolutionInterval, timers, nextId, stack, budget,
                 lastCall, everDeprecated, lastTick, heap, returned,
                 cycleEvents, eventListeners>>

AncestorNext ==
  ApplyBuildAncestorChain

AncestorSpec == AncestorInit /\ [][AncestorNext]_vars

\* The kernels the engine holds and the kernels the last createKernel or breed
\* call handed to its caller.
HeldKernels ==
  UNION { { populations[p].kernels[i] : i \in 1..Len(populations[p].kernels) } :
          p \in 1..Len(populations) }
    \cup { archive[j] : j \in 1..Len(archive) }
    \cup { returned.offspring[i] : i \in 1..Len(returned.offspring) }

-----------------------------------------------------------------------------
\* A caller that writes to the genes of the kernels it was handed.
\*
\* createKernel returns the kernel object and getPopulation returns the
\* population with its kernels, so a caller holds every kernel of HeldKernels
\* and can assign to kernel.genome.coreGenes[i].value.
StorageCalls ==
  [scheduler |-> 1, evaluate |-> 0, lifecycle |-> 0, factory |-> MaxFactoryCalls,
   ticks |-> 0, targets |-> 0, scores |-> {}, draws |-> {}, drawLists |-> {},
   rates |-> {}, later |-> {}, parents |-> {}, getter |-> 0, inOrder |-> FALSE, configs |-> Configs,
     subscribe |-> 0, topics |-> {}]

WrittenValues == {0}

\* kernel.genome.coreGenes[i].value = value, once.
WriteGene(kernel, i, value) ==
  /\ FromOutside
  /\ pure.fn = "none"
  /\ i \in 1..Len(kernel.genome.coreGenes)
  /\ heap' = [heap EXCEPT ![kernel.genome.coreGenes[i]].value = value]
  /\ pure' = [fn |-> "writeGene", parents |-> <<kernel.id>>, result |-> <<i, value>>]
  /\ UNCHANGED <<engine, evolutionInterval, timers, nextId, stack, budget,
                 lastCall, everDeprecated, lastTick, returned, cycleEvents, eventListeners>>

StorageInit ==
  ServiceInit(StorageCalls, NothingApplied)

StorageNext ==
  \/ StartEvolution
  \/ SeedCreateKernel
  \/ SeedPushPopulation
  \/ \E type \in { KernelTypes[i] : i \in 1..Len(KernelTypes) },
        custom \in CustomCoreGenes : CreateKernel(type, custom)
  \/ \E kernel \in HeldKernels, i \in 1..4, value \in WrittenValues :
        WriteGene(kernel, i, value)

StorageSpec == StorageInit /\ [][StorageNext]_vars

-----------------------------------------------------------------------------
\* crossover and applyMutations applied on their own.
\*
\* A gene is { id, type, value: unknown, mutable }: besides the numeric
\* parameters of the templates a genome can hold genes that are not mutable,
\* switches with a boolean value, selectors, regulatory genes and expression
\* modifiers.
PoolGenes ==
  << [id |-> "frozen", type |-> "parameter", value |-> 40, mutable |-> FALSE],
     [id |-> "enabled", type |-> "switch", value |-> TRUE, mutable |-> TRUE],
     [id |-> "strategy", type |-> "selector", value |-> "greedy", mutable |-> TRUE],
     [id |-> "locked", type |-> "switch", value |-> FALSE, mutable |-> FALSE],
     [id |-> "regulator", type |-> "parameter", value |-> 50, mutable |-> TRUE] >>

PoolHeap ==
  TemplateHeap \o PoolGenes

\* The reference to the pool gene `id`.
PoolRef(id) ==
  CHOOSE r \in 1..Len(PoolHeap) : PoolHeap[r].id = id

ExpressionModifier(targetGene, modifier) ==
  [targetGene |-> targetGene, condition |-> "always", modifier |-> modifier]

\* Core gene arrays of 3 to 5 genes.
CoreInputs ==
  { TemplateCoreGenes("inference"),
    TemplateCoreGenes("reasoning") \o << PoolRef("frozen") >>,
    TemplateCoreGenes("memory") \o << PoolRef("enabled"), PoolRef("strategy") >>,
    << PoolRef("frozen"), PoolRef("enabled"), PoolRef("locked") >>
      \o TemplateCoreGenes("meta") }

GenomeInput(coreGenes, regulated) ==
  LET regulatoryGenes == IF regulated THEN << PoolRef("regulator") >> ELSE <<>>
  IN  [coreGenes |-> coreGenes,
       regulatoryGenes |-> regulatoryGenes,
       expressionModifiers |->
         IF regulated
         THEN << ExpressionModifier("temperature", 50),
                 ExpressionModifier("depth", 20),
                 ExpressionModifier("decay", 10) >>
         ELSE <<>>,
       checksum |-> calculateChecksum(coreGenes, regulatoryGenes, PoolHeap)]

GenomeInputs ==
  { GenomeInput(coreGenes, regulated) :
      coreGenes \in CoreInputs, regulated \in BOOLEAN }

\* Draws that differ in the crossover point and in the choice of regulatory
\* genes, and draws that differ in what the mutation loop is given.
CrossoverDraws ==
  { [QuietDraw EXCEPT !.point = point, !.reg = reg] :
      point \in {0, 25, 50, 75, 99}, reg \in {0, 50} }

MutationDraws ==
  { [QuietDraw EXCEPT !.gates = gates, !.deltas = deltas,
                      !.insertGate = insertGate] :
      gates \in { <<0>>, <<60, 0>> },
      deltas \in { <<-10, 0, 50, 5>>, <<10>>, <<-100, 100>> },
      insertGate \in {0, 99} }

MutationRates == {0, 50, 100}

GenomeInit ==
  \E genome1 \in GenomeInputs, genome2 \in GenomeInputs,
     draw \in CrossoverDraws \cup MutationDraws, mutationRate \in MutationRates :
    ServiceInitOn(NoCalls,
                  [fn |-> "none", parents |-> <<genome1, genome2>>,
                   draw |-> draw, mutationRate |-> mutationRate,
                   result |-> <<>>, mutations |-> <<>>],
                  PoolHeap)

\* this.crossover(genome1, genome2)
ApplyCrossover ==
  LET born == crossover(pure.parents[1], pure.parents[2], pure.draw, heap)
  IN  /\ pure.fn = "none"
      /\ heap' = born.heap
      /\ pure' = [pure EXCEPT !.fn = "crossover", !.result = born.genome]
      /\ UNCHANGED <<engine, evolutionInterval, timers, nextId, stack, budget,
                     lastCall, everDeprecated, lastTick, returned,
                     cycleEvents, eventListeners>>

\* this.applyMutations(genome, mutationRate)
ApplyMutations ==
  LET mutated == applyMutations(pure.parents[1], pure.mutationRate, pure.draw,
                                heap)
  IN  /\ pure.fn = "none"
      /\ heap' = mutated.heap
      /\ pure' = [pure EXCEPT !.fn = "applyMutations",
                              !.result = mutated.genome,
                              !.mutations = mutated.mutations]
      /\ UNCHANGED <<engine, evolutionInterval, timers, nextId, stack, budget,
                     lastCall, everDeprecated, lastTick, returned,
                     cycleEvents, eventListeners>>

GenomeNext ==
  \/ ApplyCrossover
  \/ ApplyMutations

GenomeSpec == GenomeInit /\ [][GenomeNext]_vars

-----------------------------------------------------------------------------
\* Properties.

KernelsOf(p) ==
  { populations[p].kernels[i] : i \in 1..Len(populations[p].kernels) }
PopulationIds ==
  UNION { { k.id : k \in KernelsOf(p) } : p \in 1..Len(populations) }
ArchiveIds == { archive[j].id : j \in 1..Len(archive) }

\* evolutionCycle is about to run performSelection on population Top.idx.
AtSelect == InHandler("tick") /\ Top.phase = "select"
\* performSelection has just run on population Top.idx.
AfterSelect == InHandler("tick") /\ Top.phase = "breed" /\ ~Top.emitting
                 /\ Top.needed = newKernelsNeeded(populations[Top.idx])

SchedulerCall(op) ==
  budget'.scheduler = budget.scheduler - 1 /\ lastCall'.op = op

Doomed(p) ==
  { k \in KernelsOf(p) :
      k.fitness.overall < config.archiveThreshold /\ k.fitness.evaluations > 0 }

\* C1: performSelection never archives a kernel whose fitness.evaluations is 0:
\* whatever its fitness.overall, such a kernel is in the population's kernel
\* list, unchanged, after the selection.
C1_UnevaluatedSurviveSelect ==
  [][AtSelect =>
       \A k \in KernelsOf(Top.idx) :
         k.fitness.evaluations = 0 =>
           /\ \E i \in 1..Len(populations'[Top.idx].kernels) :
                populations'[Top.idx].kernels[i] = k
           /\ k.id \notin { archive'[j].id : j \in 1..Len(archive') }]_vars

\* A selection that archived a kernel has just left, in the same population,
\* an unevaluated kernel whose fitness.overall is below archiveThreshold.
C1_Witness ==
  /\ AfterSelect
  /\ Top.needed > 0
  /\ \E k \in KernelsOf(Top.idx) :
       k.fitness.evaluations = 0 /\ k.fitness.overall < config.archiveThreshold

\* C2: performSelection removes from the population exactly the kernels with
\* fitness.overall < archiveThreshold and evaluations > 0, appends each of
\* them once to the archive in state ARCHIVED, adds their number to
\* statistics.archivedCount, and keeps every other kernel in the population.
C2_SelectArchivesExactlyTheDoomed ==
  [][AtSelect =>
       LET p == Top.idx
           doomedIds == { k.id : k \in Doomed(p) }
           kept == populations'[p].kernels
           appended == SubSeq(archive', Len(archive) + 1, Len(archive'))
       IN  /\ SubSeq(archive', 1, Len(archive)) = archive
           /\ Len(appended) = Cardinality(doomedIds)
           /\ \A id \in doomedIds :
                /\ \A i \in 1..Len(kept) : kept[i].id # id
                /\ Cardinality({ j \in 1..Len(archive') : archive'[j].id = id }) = 1
                /\ \E j \in 1..Len(appended) :
                     appended[j].id = id /\ appended[j].state = ARCHIVED
           /\ populations'[p].statistics.archivedCount
                = populations[p].statistics.archivedCount + Cardinality(doomedIds)
           /\ \A k \in KernelsOf(p) \ Doomed(p) :
                \E i \in 1..Len(kept) : kept[i] = k
           /\ Len(kept) = Len(populations[p].kernels) - Cardinality(doomedIds)]_vars

\* A selection has just archived some kernels of a population and kept others.
C2_Witness ==
  /\ AfterSelect
  /\ Top.needed > 1
  /\ Len(populations[Top.idx].kernels) > 1
  /\ populations[Top.idx].statistics.archivedCount = Top.needed

\* C3: archiving is monotonic: a kernel once in the archive stays in the
\* archive, and no kernel of the archive is in any population's kernel list,
\* whatever ticks and calls follow.
C3_ArchivedNeverInPopulation ==
  [][/\ ArchiveIds \subseteq { archive'[j].id : j \in 1..Len(archive') }
     /\ \A p \in 1..Len(populations') :
          \A i \in 1..Len(populations'[p].kernels) :
            populations'[p].kernels[i].id
              \notin { archive'[j].id : j \in 1..Len(archive') }]_vars

\* A later tick has just run selection on the population an archived kernel
\* came from, after evaluateFitness raised that kernel above the threshold.
C3_Witness ==
  /\ AfterSelect
  /\ globalGeneration > 0
  /\ \E j \in 1..Len(archive) :
       /\ archive[j].fitness.overall >= config.archiveThreshold
       /\ archive[j].type = populations[Top.idx].name

\* C4: DEPRECATED is terminal: a kernel deprecateKernel has deprecated is never
\* in state ACTIVE afterwards.
C4_DeprecatedNeverActive ==
  /\ \A p \in 1..Len(populations) : \A k \in KernelsOf(p) :
       k.id \in everDeprecated => k.state # ACTIVE
  /\ \A j \in 1..Len(archive) :
       archive[j].id \in everDeprecated => archive[j].state # ACTIVE

\* C5: a tick that starts runs to completion: evolutionCycle leaves the stack
\* only by returning after its generation-complete event, never by an exception.
C5_TickRunsToCompletion ==
  [][(InHandler("tick") /\ stack' = <<>>) =>
       (Top.phase = "return" /\ lastTick' = "completed")]_vars

\* C6: performBreeding brings the population from its size after selection to
\* max(that size, capacity), and statistics.totalCreated grows by the number
\* of kernels added.
C6_GrowFillsToCapacity ==
  [][(InHandler("tick") /\ Top.phase = "breed") =>
       LET p == Top.idx
           growEnds == stack' = <<>> \/ stack'[Len(stack')].phase # "breed"
       IN  /\ populations'[p].statistics.totalCreated
                  - populations[p].statistics.totalCreated
                = Len(populations'[p].kernels) - Len(populations[p].kernels)
           /\ growEnds =>
                Len(populations[p].kernels)
                  = Max(Top.currentSize, populations[p].capacity)]_vars

\* C7: startEvolution while isEvolving changes no engine state and schedules
\* no timer; stopEvolution while not isEvolving changes no engine state.
C7_StartStopIdempotent ==
  [][/\ (SchedulerCall("startEvolution") /\ isEvolving) =>
          UNCHANGED <<engine, evolutionInterval, timers, nextId, stack>>
     /\ (SchedulerCall("stopEvolution") /\ ~isEvolving) =>
          UNCHANGED <<engine, nextId, stack>>]_vars

\* startEvolution has just been called on a running scheduler.
C7_Witness ==
  /\ lastCall.op = "startEvolution" /\ lastCall.ret = "already-running"
  /\ isEvolving
  /\ timers > 0

\* C8: populations are seeded once: there is at most one population per
\* kernel type, each is pushed with exactly FounderCount founders of
\* generation 0 in state DORMANT, and once populations exist no startEvolution
\* or stopEvolution call changes the populations, the archive or
\* globalGeneration, or creates a kernel.
C8_OnePopulationPerType ==
  [][/\ Len(populations') <= Len(KernelTypes)
     /\ \A p, q \in 1..Len(populations') :
          populations'[p].name = populations'[q].name => p = q
     /\ Len(populations') > Len(populations) =>
          LET pop == populations'[Len(populations')]
          IN  /\ pop.name = KernelTypes[Len(populations')]
              /\ Len(pop.kernels) = FounderCount
              /\ \A i \in 1..Len(pop.kernels) :
                   /\ pop.kernels[i].lineage.generation = 0
                   /\ pop.kernels[i].state = DORMANT
     /\ ((SchedulerCall("startEvolution") \/ SchedulerCall("stopEvolution"))
           /\ populations # <<>>) =>
          UNCHANGED <<populations, archive, globalGeneration, nextId>>]_vars

\* C9: ticks fire only while the scheduler is running: no evolutionCycle
\* starts in a state where isEvolving is false.
C9_TicksOnlyWhileEvolving ==
  [][budget'.ticks < budget.ticks => isEvolving]_vars

\* C10: no two ticks execute concurrently: at most one evolutionCycle is in
\* progress at any moment.
C10_NoConcurrentTicks ==
  Cardinality({ i \in 1..Len(stack) : stack[i].kind = "tick" }) <= 1

\* An evolutionCycle is in progress, inside an emitEvent, while a timer is
\* scheduled and due to fire again.
C10_Witness ==
  /\ InHandler("tick")
  /\ Top.emitting
  /\ timers > 0
  /\ budget.ticks > 0

\* The number of places that hold a kernel with this id: positions of the
\* populations' kernel lists and of the archive.
Occurrences(id) ==
  Cardinality(UNION { { <<p, i>> : i \in { j \in 1..Len(populations[p].kernels) :
                                            populations[p].kernels[j].id = id } } :
                      p \in 1..Len(populations) })
    + Cardinality({ j \in 1..Len(archive) : archive[j].id = id })

\* C11: every kernel the engine has produced is owned by exactly one
\* population or by the archive: whenever no handler is in progress, each id
\* generated so far occurs exactly once in the populations and the archive.
C11_EveryKernelOwnedOnce ==
  EventLoopIdle => \A id \in 1..(nextId - 1) : Occurrences(id) = 1

\* C12: every kernel in a population's kernel list has the type that is the
\* population's name, the offspring appended by performBreeding included.
C12_KernelTypeIsPopulationName ==
  \A p \in 1..Len(populations) :
    \A i \in 1..Len(populations[p].kernels) :
      populations[p].kernels[i].type = populations[p].name

\* A population other than the first holds an offspring of performBreeding.
C12_Witness ==
  \E p \in 2..Len(populations) :
    \E i \in 1..Len(populations[p].kernels) :
      /\ populations[p].kernels[i].lineage.parents # <<>>
      /\ populations[p].kernels[i].type = populations[p].name

\* C13: a kernel without parents (made by createKernel) has generation 0; a
\* kernel made by breed has generation 1 + the largest generation of its
\* resolved parents, which is above the generation of each recorded parent.
C13_GenerationFromParents ==
  \A k \in HeldKernels :
    LET parents == ResolveParents(k.lineage.parents)
    IN  IF k.lineage.parents = <<>>
        THEN k.lineage.generation = 0
        ELSE /\ Len(parents) = Len(k.lineage.parents)
             /\ k.lineage.generation = 1 + MaxGeneration(parents)
             /\ \A i \in 1..Len(parents) :
                  k.lineage.generation > parents[i].lineage.generation

\* A child of two parents whose first parent is of an earlier generation than
\* the second.
C13_Witness ==
  \E k \in HeldKernels :
    LET parents == ResolveParents(k.lineage.parents)
    IN  /\ Len(parents) = 2
        /\ parents[1].lineage.generation < parents[2].lineage.generation
        /\ k.lineage.generation = parents[2].lineage.generation + 1

\* The ids buildAncestorChain may take from a parent: its id and the first 4
\* of its ancestors.
AncestorSources(ps) ==
  UNION { {ps[i].id} \cup { ps[i].lineage.ancestors[j] :
                              j \in 1..Min(4, Len(ps[i].lineage.ancestors)) } :
          i \in 1..Len(ps) }

\* C14: the ancestors breed records for a child hold no id twice, hold at most
\* 5 ids, and hold only ids of resolved parents and ids among the first 4
\* ancestors of a resolved parent.
C14_AncestorChain ==
  pure.fn = "buildAncestorChain" =>
    /\ \A i, j \in 1..Len(pure.result) :
         pure.result[i] = pure.result[j] => i = j
    /\ Len(pure.result) <= 5
    /\ \A i \in 1..Len(pure.result) :
         pure.result[i] \in AncestorSources(pure.parents)

\* The chain of three parents that share ancestors and offer more than 5 ids.
C14_Witness ==
  /\ pure.fn = "buildAncestorChain"
  /\ Len(pure.parents) = MaxParents
  /\ Len(pure.result) = 5
  /\ Cardinality(AncestorSources(pure.parents)) > 5
  /\ \E i \in 1..Len(pure.parents) :
       \E j \in 1..Len(pure.parents[i].lineage.ancestors) :
         /\ j <= 4
         /\ pure.parents[i].lineage.ancestors[j] = pure.parents[1].id

\* C15: every kernel in a population or in the archive, and every kernel the
\* last createKernel or breed call returned, carries the checksum of the
\* current ids and values of its core and regulatory genes.
C15_NoStaleChecksum ==
  \A k \in HeldKernels :
    k.genome.checksum =
      calculateChecksum(k.genome.coreGenes, k.genome.regulatoryGenes, heap)

\* A child whose breeding changed the value of a gene and inserted a gene.
C15_Witness ==
  \E k \in HeldKernels :
    /\ \E i \in 1..Len(k.lineage.mutations) :
         k.lineage.mutations[i].type = "insertion"
    /\ \E i \in 1..Len(k.lineage.mutations) :
         k.lineage.mutations[i].type = "parameter"
    /\ \A parent \in HeldKernels :
         parent.id = k.lineage.parents[1] =>
           parent.genome.checksum # k.genome.checksum

\* The values of the genes of `kernel` in heap h.
GeneValues(kernel, h) ==
  [i \in 1..Len(kernel.genome.coreGenes) |-> h[kernel.genome.coreGenes[i]].value]

\* C16: a write to the value of a gene of one kernel made by createKernel
\* changes no gene of the templates and no gene of any other kernel.
C16_IndependentGeneStorage ==
  [][pure.fn = "none" /\ pure'.fn = "writeGene" =>
       /\ \A r \in 1..Len(TemplateHeap) : heap'[r] = heap[r]
       /\ \A kernel \in HeldKernels :
            kernel.id # pure'.parents[1] =>
              GeneValues(kernel, heap') = GeneValues(kernel, heap)]_vars

\* The step is a call of public method `op`, which spends the callers' budget
\* of `kind`.
CallOf(kind, op) ==
  budget'[kind] = budget[kind] - 1 /\ lastCall'.op = op

\* C17: a breed call none of whose parent ids resolves returns the result of
\* no offspring with three zeros, changes nothing of the engine state and
\* emits no event.
C17_BreedWithoutParents ==
  [][CallOf("factory", "breed") =>
     \A request \in BreedRequests : \A draws \in DrawListsFor(request) :
       ResolveParents(request.parents) = <<>> /\ Breed(request, draws) =>
         /\ returned' = Result("breed", <<>>, Ratio(0, 1), 0, 0)
         /\ lastCall'.ret = "no-offspring"
         /\ lastCall'.events = <<>>
         /\ UNCHANGED <<engine, evolutionInterval, timers, nextId, heap, stack>>]_vars

\* breed has returned no offspring for an id that is in none of the seeded
\* populations and not in the archive.
C17_Witness ==
  /\ lastCall.op = "breed"
  /\ lastCall.ret = "no-offspring"
  /\ returned = Result("breed", <<>>, Ratio(0, 1), 0, 0)
  /\ Len(populations) = Len(KernelTypes)
  /\ totalKernelsCreated = Len(KernelTypes) * FounderCount

\* C18: a breed call with at least one resolving parent id returns exactly
\* offspringCount offspring and successRate 1.0, for every offspringCount
\* (0 included) and every method; each offspring is DORMANT with the neutral
\* fitness, and totalKernelsCreated grows by offspringCount.
C18_BreedReturnsFullCount ==
  [][CallOf("factory", "breed") =>
     \A request \in BreedRequests : \A draws \in DrawListsFor(request) :
       ResolveParents(request.parents) # <<>> /\ Breed(request, draws) =>
         /\ Len(returned'.offspring) = request.offspringCount
         /\ returned'.successRate = [isNaN |-> FALSE, percent |-> 100]
         /\ \A i \in 1..Len(returned'.offspring) :
              /\ returned'.offspring[i].state = DORMANT
              /\ returned'.offspring[i].fitness = createInitialFitness
         /\ totalKernelsCreated' = totalKernelsCreated + request.offspringCount]_vars

\* What evaluateFitness, activateKernel and deprecateKernel leave alone when
\* they find no kernel: the engine state and everything else but the record
\* of the call.
LookupFailed(ret) ==
  /\ lastCall'.ret = ret
  /\ lastCall'.events = <<>>
  /\ UNCHANGED <<engine, evolutionInterval, timers, nextId, stack, heap,
                 everDeprecated, lastTick, returned>>

\* C19: evaluateFitness, activateKernel and deprecateKernel called with an id
\* that is in no population and not in the archive return null, false and
\* false, change nothing of the engine state and emit no event.
C19_UnknownIdIsSoftFailure ==
  [][CallOf("evaluate", "evaluateFitness") \/ CallOf("lifecycle", "activateKernel")
       \/ CallOf("lifecycle", "deprecateKernel") =>
     \A id \in TargetIds :
       Occurrences(id) = 0 =>
         /\ \A scores \in budget.scores :
              EvaluateFitness(id, scores) => LookupFailed("null")
         /\ ActivateKernel(id) => LookupFailed("false")
         /\ DeprecateKernel(id) => LookupFailed("false")]_vars

\* With the populations seeded, deprecateKernel has answered false and
\* evaluateFitness has been called without any kernel being evaluated.
C19_Witness ==
  /\ lastCall.op = "deprecateKernel"
  /\ lastCall.ret = "false"
  /\ Len(populations) = Len(KernelTypes)
  /\ budget.evaluate = 0
  /\ budget.factory = 1
  /\ \A k \in HeldKernels : k.fitness.evaluations = 0 /\ k.state = DORMANT

\* C20: getPopulation and getBestKernel change nothing of the engine state,
\* the order of the kernels included, and emit no event, for every type.
C20_GettersReadOnly ==
  [][CallOf("getter", "getPopulation") \/ CallOf("getter", "getBestKernel") =>
     \A i \in 1..Len(KernelTypes) :
       GetPopulation(KernelTypes[i]) \/ GetBestKernel(KernelTypes[i]) =>
         /\ lastCall'.events = <<>>
         /\ UNCHANGED <<engine, evolutionInterval, timers, nextId, stack, heap,
                        everDeprecated, lastTick>>]_vars

\* getBestKernel has returned a kernel that is not the first of its
\* population and is fitter than the first.
C20_Witness ==
  /\ lastCall.op = "getBestKernel"
  /\ Len(returned.offspring) = 1
  /\ \E p \in 1..Len(populations) :
       /\ populations[p].name = returned.offspring[1].type
       /\ populations[p].kernels[1].id # returned.offspring[1].id
       /\ populations[p].kernels[1].fitness.overall
            < returned.offspring[1].fitness.overall

\* C21: every population with N > 0 kernels has a diversityIndex of at least
\* 1 / N and at most 1, freshly seeded populations and populations whose size
\* changed since the last updatePopulationStatistics included.
C21_DiversityIndexInRange ==
  \A p \in 1..Len(populations) :
    LET N == Len(populations[p].kernels)
        d == populations[p].statistics.diversityIndex
    IN  N > 0 => d.num * N >= d.den /\ d.num <= d.den

\* C22: every updatePopulationStatistics appends the current averageFitness
\* (0 for an empty population) as the last element of fitnessTrend and keeps
\* the last 20 samples, so after k refreshes the trend has min(k, 20) entries.
C22_TrendGetsEveryRefresh ==
  [][TickStats =>
       LET p == Top.idx
           kernels == populations[p].kernels
           before == populations[p].statistics.fitnessTrend
           after == populations'[p].statistics
       IN  /\ after.averageFitness =
                (IF kernels = <<>> THEN 0
                 ELSE SumOverall(kernels) \div Len(kernels))
           /\ after.fitnessTrend =
                LastN(Append(before, after.averageFitness), TrendLimit)
           /\ Len(after.fitnessTrend) =
                Min(populations'[p].generation, TrendLimit)]_vars

RECURSIVE GCD(_, _)
GCD(a, b) == IF b = 0 THEN a ELSE GCD(b, a % b)

\* A fraction with a positive numerator in lowest terms.
Lowest(f) ==
  LET g == GCD(f.num, f.den) IN [num |-> f.num \div g, den |-> f.den \div g]

\* The population numbers whose fitnessTrend has at least 5 samples, a non-empty
\* slice trend[-10:-5], and a mean of the last 5 samples above 1.2 times the
\* mean of that slice.
TrendsImproved ==
  { p \in 1..Len(populations) :
      LET trend == populations[p].statistics.fitnessTrend
          n == Len(trend)
          from == IF n > 10 THEN n - 9 ELSE 1
      IN  /\ n >= 5
          /\ from <= n - 5
          /\ 10 * SumSeq(SubSeq(trend, n - 4, n)) * (n - 5 - from + 1)
               > 12 * SumSeq(SubSeq(trend, from, n - 5)) * 5 }

\* C23: the emergence scan appends an event, and emits emergence-detected,
\* for exactly the populations whose trend has at least 5 samples, a non-empty
\* slice trend[-10:-5] and a mean of the last 5 samples above 1.2 times the mean
\* of that slice: at most one event per population per scan, of type
\* capability, with significance (recent - older) / older.
C23_EmergenceExactlyOnImprovement ==
  [][TickFinish /\ config.enableEmergence =>
       LET new == SubSeq(emergenceEvents', Len(emergenceEvents) + 1,
                         Len(emergenceEvents'))
           announced == SelectSeq(cycleEvents',
                                  LAMBDA e : e.type = "emergence-detected")
       IN  /\ Len(new) = Cardinality(TrendsImproved)
           /\ Len(announced) = Len(new)
           /\ \A i \in 1..Len(new) :
                /\ new[i].index \in TrendsImproved
                /\ announced[i].population = new[i].index
                /\ \A j \in 1..Len(new) : new[j].index = new[i].index => j = i
                /\ new[i].type = "capability"
                /\ LET trend == populations[new[i].index].statistics.fitnessTrend
                       n == Len(trend)
                       from == IF n > 10 THEN n - 9 ELSE 1
                       recent == SumSeq(SubSeq(trend, n - 4, n))
                       older == SumSeq(SubSeq(trend, from, n - 5))
                       m == n - 5 - from + 1
                   IN  Lowest(new[i].significance)
                         = Lowest([num |-> recent * m - older * 5,
                                   den |-> older * 5])]_vars

\* A scan has found an improved population and announced it.
C23_Witness ==
  /\ lastTick = "completed"
  /\ emergenceEvents # <<>>
  /\ \E i \in 1..Len(cycleEvents) : cycleEvents[i].type = "emergence-detected"
  /\ emergenceEvents[Len(emergenceEvents)].significance.num > 0

\* Every listener registered for the type was called exactly once in `invoked`.
EachListenerOnce(type, invoked) ==
  \A l \in 1..Len(eventListeners[type]) :
    Cardinality({ i \in 1..Len(invoked) :
                    /\ invoked[i].type = type
                    /\ invoked[i].listener = eventListeners[type][l].id }) = 1

\* C24: event delivery is fault-isolated per subscriber: when a listener throws,
\* every other listener of that type is still called exactly once for the
\* event, and the exception does not reach the emitting operation, which
\* returns its value (createKernel, breed, activateKernel, deprecateKernel) or
\* goes on (a tick) as it does when no listener throws.
C24_ListenerFaultsIsolated ==
  [][/\ lastCall' # lastCall =>
          /\ lastCall'.ret # "threw"
          /\ \A e \in 1..Len(lastCall'.events) :
               EachListenerOnce(lastCall'.events[e], lastCall'.invoked)
     /\ \A i \in 1..Len(cycleEvents') :
          i > Len(cycleEvents) =>
            /\ EachListenerOnce(cycleEvents'[i].type, cycleEvents'[i].invoked)
            /\ lastTick' = lastTick
            /\ stack' # <<>>]_vars

\* An operation has emitted an event to a listener that threw and then to a
\* listener registered after it.
C24_Witness ==
  /\ lastCall.op \in {"createKernel", "breed", "activateKernel", "deprecateKernel"}
  /\ \E i, j \in 1..Len(lastCall.invoked) :
       /\ i < j
       /\ lastCall.invoked[i].threw
       /\ ~lastCall.invoked[j].threw
       /\ lastCall.invoked[i].type = lastCall.invoked[j].type

Components ==
  {"performance", "efficiency", "reliability", "adaptability", "innovation"}

\* 0.30 performance + 0.20 efficiency + 0.20 reliability + 0.15 adaptability
\* + 0.15 innovation, in ten-thousandths.
WeightedSum(f) ==
  30 * f.performance + 20 * f.efficiency + 20 * f.reliability
    + 15 * f.adaptability + 15 * f.innovation

AllKernels ==
  UNION { KernelsOf(p) : p \in 1..Len(populations) }
    \cup { archive[j] : j \in 1..Len(archive) }

\* C25: evaluateFitness on a known kernel overwrites exactly the components
\* present in partialScores, leaves the absent ones unchanged, sets overall to
\* the weighted sum of the resulting components and increments evaluations by
\* one; and in every reachable state every kernel's overall is that weighted
\* sum of its components.
C25_OverallIsWeightedSum ==
  /\ [](\A k \in AllKernels : k.fitness.overall = WeightedSum(k.fitness))
  /\ [][CallOf("evaluate", "evaluateFitness") =>
          \A id \in TargetIds, scores \in budget.scores :
            EvaluateFitness(id, scores) /\ findKernel(id).where # "nowhere" =>
              LET old == KernelAt(findKernel(id)).fitness
                  new == (KernelAt(findKernel(id)).fitness)'
              IN  /\ \A c \in Components :
                       new[c] = IF c \in DOMAIN scores THEN scores[c] ELSE old[c]
                  /\ new.overall = WeightedSum(new)
                  /\ new.evaluations = old.evaluations + 1]_vars

\* A kernel evaluated twice, whose second call left alone the component the
\* first one had set.
C25_Witness ==
  /\ lastCall.op = "evaluateFitness"
  /\ \E k \in AllKernels :
       /\ k.fitness.evaluations = 2
       /\ k.fitness.performance = 100
       /\ k.fitness.innovation = 100
       /\ k.fitness.efficiency = 0
       /\ k.fitness.reliability = InitialScore
       /\ k.fitness.overall = WeightedSum(k.fitness)

\* C26: in every reachable state each kernel's overall, performance,
\* efficiency, reliability, adaptability and innovation lie in [0, 1], whatever
\* partialScores evaluateFitness is called with.
C26_ScoresInUnitInterval ==
  \A k \in AllKernels :
    /\ k.fitness.overall >= 0 /\ k.fitness.overall <= 10000
    /\ \A c \in Components : k.fitness[c] >= 0 /\ k.fitness[c] <= 100

\* C27: each population holds at most `capacity` kernels, capacity being
\* floor(populationCapacity / 4), for every populationCapacity, also right
\* after seeding with 5 founders and after every performBreeding.
C27_PopulationWithinCapacity ==
  \A p \in 1..Len(populations) :
    /\ populations[p].capacity = config.populationCapacity \div Len(KernelTypes)
    /\ Len(populations[p].kernels) <= populations[p].capacity

\* Two lists of draws with the same values of the random stream.
SameRandomStream(draws, other) ==
  /\ Len(draws) = Len(other)
  /\ \A i \in 1..Len(draws) : [draws[i] EXCEPT !.now = 0] = [other[i] EXCEPT !.now = 0]

\* What a kernel shows of its genome and mutations: gene ids and values,
\* the checksum, and type, target and magnitude of each mutation.
GenomeAndMutations(kernel, h) ==
  [core |-> [i \in 1..Len(kernel.genome.coreGenes) |->
               << h[kernel.genome.coreGenes[i]].id,
                  h[kernel.genome.coreGenes[i]].value >>],
   reg |-> [i \in 1..Len(kernel.genome.regulatoryGenes) |->
              << h[kernel.genome.regulatoryGenes[i]].id,
                 h[kernel.genome.regulatoryGenes[i]].value >>],
   checksum |-> kernel.genome.checksum,
   mutations |-> [i \in 1..Len(kernel.lineage.mutations) |->
                    << kernel.lineage.mutations[i].type,
                       kernel.lineage.mutations[i].target,
                       kernel.lineage.mutations[i].magnitude >>]]

\* C28: breed is deterministic given its random stream: an engine in the same
\* state that receives the same request and the same sequence of random draws
\* returns offspring with the same genomes (gene ids, values, checksum) and
\* the same ordered mutation lists (type, target, magnitude).
C28_BreedDeterministicInDraws ==
  [][CallOf("factory", "breed") =>
       \A request \in BreedRequests :
         \A draws \in DrawListsFor(request) :
           Breed(request, draws) =>
             \A other \in DrawListsFor(request) :
               SameRandomStream(draws, other) =>
                 LET twin == BreedLoop(1, request, ResolveParents(request.parents),
                                       other, heap, <<>>, <<0, 0>>)
                 IN  Len(ResolveParents(request.parents)) >= 1 =>
                       /\ Len(twin.offspring) = Len(returned'.offspring)
                       /\ \A i \in 1..Len(twin.offspring) :
                            GenomeAndMutations(twin.offspring[i], twin.heap)
                              = GenomeAndMutations(returned'.offspring[i], heap')]_vars

\* C29: getBestKernel(type) returns null when no population of that type
\* exists or it is empty; otherwise it returns a kernel of that population
\* whose fitness.overall is at least that of every other kernel of the
\* population, the earliest in the kernel list among those tied for the maximum.
C29_BestKernelIsEarliestMaximum ==
  [][CallOf("getter", "getBestKernel") =>
       \A t \in 1..Len(KernelTypes) :
         GetBestKernel(KernelTypes[t]) =>
           LET named == { p \in 1..Len(populations) :
                            populations[p].name = KernelTypes[t] }
           IN  IF named = {} \/ \A p \in named : populations[p].kernels = <<>>
               THEN lastCall'.ret = "null" /\ returned'.offspring = <<>>
               ELSE /\ lastCall'.ret = "kernel"
                    /\ \E p \in named :
                       \E i \in 1..Len(populations[p].kernels) :
                         LET kernels == populations[p].kernels
                         IN  /\ returned'.offspring = << kernels[i] >>
                             /\ \A j \in 1..Len(kernels) :
                                  /\ kernels[j].fitness.overall
                                       <= kernels[i].fitness.overall
                                  /\ j < i => kernels[j].fitness.overall
                                                < kernels[i].fitness.overall]_vars

\* getBestKernel has returned a kernel that is not the first of its
\* population, with a kernel after it tied for the maximum.
C29_Witness ==
  /\ lastCall.op = "getBestKernel"
  /\ Len(returned.offspring) = 1
  /\ \E p \in 1..Len(populations) :
       \E i, j \in 1..Len(populations[p].kernels) :
         /\ 1 < i /\ i < j
         /\ populations[p].kernels[i] = returned.offspring[1]
         /\ populations[p].kernels[j].fitness.overall
              = returned.offspring[1].fitness.overall

\* The place of an event in a cycle: the events of population p before those
\* of population p + 1, breeding before the statistics, then the emergence
\* events, then generation-complete.
EventRank(e) ==
  CASE e.type = "breeding-complete" -> 2 * e.population - 1
    [] e.type = "population-updated" -> 2 * e.population
    [] e.type = "emergence-detected" -> 2 * Len(populations) + 1
    [] e.type = "generation-complete" -> 2 * Len(populations) + 2

\* C30: within one tick, for each population in list order, performSelection
\* runs before performBreeding and performBreeding before
\* updatePopulationStatistics, so the statistics leave out the kernels archived
\* in this tick and include those bred in it; every breeding-complete and
\* population-updated event precedes any emergence-detected event, and the one
\* generation-complete event comes last, after globalGeneration is incremented.
C30_TickStepsInOrder ==
  /\ [](\A i, j \in 1..Len(cycleEvents) :
          i < j => /\ EventRank(cycleEvents[i]) <= EventRank(cycleEvents[j])
                   /\ cycleEvents[i].type # "generation-complete")
  /\ [][TickStats =>
          LET p == Top.idx
              kernels == populations[p].kernels
              bred == { i \in 1..Len(cycleEvents) :
                          /\ cycleEvents[i].type = "breeding-complete"
                          /\ cycleEvents[i].population = p }
          IN  /\ Doomed(p) = {}
              /\ \A k \in KernelsOf(p) : k.state # ARCHIVED
              /\ Len(kernels) >= populations[p].capacity
              /\ Len(kernels) = Top.currentSize + Cardinality(bred)
              /\ kernels # <<>> =>
                   /\ populations'[p].statistics.averageFitness
                        = SumOverall(kernels) \div Len(kernels)
                   /\ populations'[p].statistics.diversityIndex.den = Len(kernels)
                   /\ cycleEvents'[Len(cycleEvents')].type = "population-updated"
                   /\ cycleEvents'[Len(cycleEvents')].population = p]_vars
  /\ [][TickFinish =>
          /\ cycleEvents'[Len(cycleEvents')].type = "generation-complete"
          /\ cycleEvents'[Len(cycleEvents')].generation = globalGeneration + 1
          /\ globalGeneration' = globalGeneration + 1]_vars

\* A tick has archived a kernel, bred one, refreshed the statistics, detected
\* an emergence and completed.
C30_Witness ==
  /\ lastTick = "completed"
  /\ archive # <<>>
  /\ \A type \in {"breeding-complete", "population-updated", "emergence-detected",
                   "generation-complete"} :
       \E i \in 1..Len(cycleEvents) : cycleEvents[i].type = type

\* The crossover point of the draw the genome specification holds, counted
\* from 0.
PointDrawn ==
  RandomIndex(pure.draw.point, Len(pure.parents[1].coreGenes))

\* Gene object `ref` of heap h is an unchanged copy of pool gene `source`.
CopyOf(ref, source, h) ==
  /\ ref > Len(PoolHeap)
  /\ h[ref].id = PoolHeap[source].id
  /\ h[ref] = PoolHeap[source]

\* No gene object that existed before the call has changed.
PoolUntouched ==
  \A r \in 1..Len(PoolHeap) : heap[r] = PoolHeap[r]

\* C31: for all genomes gA, gB and every crossover point p in
\* [0, len(gA.coreGenes)), the child of crossover has the core genes
\* gA.coreGenes[0:p] followed by gB.coreGenes[p:]: p + max(0, len(gB) - p)
\* genes, gene i a copy of gA's gene i for i < p and of gB's gene i for
\* i >= p, and no gene of either parent is modified.
C31_CrossoverSplicesAtPoint ==
  pure.fn = "crossover" =>
    LET gA == pure.parents[1].coreGenes
        gB == pure.parents[2].coreGenes
        child == pure.result.coreGenes
    IN  /\ PointDrawn \in 0..(Len(gA) - 1)
        /\ Len(child) = PointDrawn + Max(0, Len(gB) - PointDrawn)
        /\ \A i \in 1..Len(child) :
              CopyOf(child[i], IF i <= PointDrawn THEN gA[i] ELSE gB[i], heap)
        /\ PoolUntouched

\* A crossover of a five-gene genome with a three-gene genome at point 4:
\* the child has the four leading genes of the first parent and none of the
\* second.
C31_Witness ==
  /\ pure.fn = "crossover"
  /\ Len(pure.parents[1].coreGenes) = 5
  /\ Len(pure.parents[2].coreGenes) = 3
  /\ PointDrawn = 4
  /\ Len(pure.result.coreGenes) = 4
  /\ pure.parents[1].coreGenes # pure.parents[2].coreGenes

\* A step in which applyMutations is applied to the first genome.
MutationsApplied ==
  pure.fn = "none" /\ pure'.fn = "applyMutations"

\* C32: applyMutations changes only mutable core genes of type parameter or
\* switch: a core gene that is not mutable or of type selector, sequence or
\* structure, every regulatory gene and every expression modifier is the same
\* after as before (as is every gene object outside the genome's core
\* genes), no gene's id, type or mutable flag changes, and the core genes
\* before are the leading core genes after, in the same order, followed by at
\* most one new gene.
C32_MutateTouchesOnlyMutableGenes ==
  [][MutationsApplied =>
       LET before == pure.parents[1]
           after == pure'.result
           n == Len(before.coreGenes)
       IN  /\ Len(after.coreGenes) \in {n, n + 1}
           /\ FirstN(after.coreGenes, n) = before.coreGenes
           /\ Len(after.coreGenes) = n + 1 =>
                 /\ Len(heap') = Len(heap) + 1
                 /\ after.coreGenes[n + 1] = Len(heap')
           /\ \A i \in 1..n :
                 LET was == heap[before.coreGenes[i]]
                     is == heap'[before.coreGenes[i]]
                 IN  /\ is.id = was.id
                     /\ is.type = was.type
                     /\ is.mutable = was.mutable
                     /\ (~was.mutable \/ was.type \notin {"parameter", "switch"})
                          => is.value = was.value
           /\ after.regulatoryGenes = before.regulatoryGenes
           /\ after.expressionModifiers = before.expressionModifiers
           /\ \A r \in 1..Len(heap) :
                 (\A i \in 1..n : before.coreGenes[i] # r) => heap'[r] = heap[r]
    ]_vars

\* applyMutations has changed a parameter and toggled a switch of a genome
\* that also holds a gene it must leave alone (not mutable, or a selector),
\* a regulatory gene and expression modifiers, and has appended a gene.
C32_Witness ==
  /\ pure.fn = "applyMutations"
  /\ Len(pure.result.coreGenes) = Len(pure.parents[1].coreGenes) + 1
  /\ pure.parents[1].regulatoryGenes # <<>>
  /\ pure.parents[1].expressionModifiers # <<>>
  /\ \E i \in 1..Len(pure.parents[1].coreGenes) :
        LET r == pure.parents[1].coreGenes[i]
        IN  /\ ~PoolHeap[r].mutable \/ PoolHeap[r].type = "selector"
            /\ heap[r].value = PoolHeap[r].value
  /\ \E i \in 1..Len(pure.parents[1].coreGenes) :
        LET r == pure.parents[1].coreGenes[i]
        IN  PoolHeap[r].type = "switch" /\ heap[r].value # PoolHeap[r].value
  /\ \E i \in 1..Len(pure.parents[1].coreGenes) :
        LET r == pure.parents[1].coreGenes[i]
        IN  PoolHeap[r].type = "parameter" /\ heap[r].value # PoolHeap[r].value

\* The ids of the mutable genes of type parameter among the genes `refs`
\* refer to on heap h, in gene order.
RECURSIVE MutableNumericIds(_, _)
MutableNumericIds(refs, h) ==
  IF refs = <<>> THEN <<>>
  ELSE (IF h[refs[1]].mutable /\ h[refs[1]].type = "parameter"
        THEN << h[refs[1]].id >> ELSE <<>>)
         \o MutableNumericIds(Tail(refs), h)

C34_CrossoverHasTwoParents ==
  /\ \A p \in 1..Len(populations) :
        \A k \in KernelsOf(p) :
          k.lineage.breedingMethod = "crossover" => Len(k.lineage.parents) = 2
  /\ (InHandler("tick") /\ Top.phase = "breed" /\ Len(Top.elite) < 2) =>
        \A i \in (Top.currentSize + 1)..Len(populations[Top.idx].kernels) :
          /\ populations[Top.idx].kernels[i].lineage.breedingMethod = "asexual"
          /\ Len(populations[Top.idx].kernels[i].lineage.parents) = 1

\* Kernel `after` is kernel `before` with state DEPRECATED and nothing else
\* changed.
DeprecatedFrom(before, after) ==
  after = [before EXCEPT !.state = DEPRECATED]

\* The kernels of all populations and of the archive, by position.
KernelSlots ==
  UNION { { <<p, i>> : i \in 1..Len(populations[p].kernels) } :
          p \in 1..Len(populations) }
    \cup { <<0, j>> : j \in 1..Len(archive) }

KernelIn(pops, arch, slot) ==
  IF slot[1] = 0 THEN arch[slot[2]] ELSE pops[slot[1]].kernels[slot[2]]

\* C35: deprecateKernel on a known kernel changes only that kernel's state,
\* to DEPRECATED, and emits kernel-deprecated: every population and the
\* archive keep their length and order, every other kernel, all statistics
\* and all counters are unchanged; and performBreeding takes its elite from
\* the leading kernels of the population whatever their state, so a
\* DEPRECATED kernel stays eligible as a parent.
C35_DeprecateChangesOnlyState ==
  /\ [][(CallOf("lifecycle", "deprecateKernel") /\ lastCall'.ret = "true") =>
          /\ lastCall'.events = <<"kernel-deprecated">>
          /\ Len(populations') = Len(populations)
          /\ Len(archive') = Len(archive)
          /\ \A p \in 1..Len(populations) :
                /\ Len(populations'[p].kernels) = Len(populations[p].kernels)
                /\ [populations'[p] EXCEPT !.kernels = populations[p].kernels]
                     = populations[p]
          /\ \E slot \in KernelSlots :
                /\ DeprecatedFrom(KernelIn(populations, archive, slot),
                                  KernelIn(populations', archive', slot))
                /\ \A other \in KernelSlots \ {slot} :
                      KernelIn(populations', archive', other)
                        = KernelIn(populations, archive, other)
          /\ UNCHANGED <<config, globalGeneration, totalKernelsCreated,
                         emergenceEvents, isEvolving, evolutionInterval, timers,
                         nextId, stack, heap>>
       ]_vars
  /\ [](AfterSelect =>
          LET ks == populations[Top.idx].kernels
          IN  \A i \in 1..Len(ks) :
                (i - 1) * 100 < Len(ks) * config.elitismRate
                  => InSeq(ks[i].id, Top.elite))

\* A kernel bred by a tick from a parent that deprecateKernel had set to
\* DEPRECATED before the tick, and that is still DEPRECATED in its population.
C35_Witness ==
  /\ lastCall.op = "deprecateKernel"
  /\ lastCall.ret = "true"
  /\ \E p \in 1..Len(populations) :
        \E child \in KernelsOf(p) : \E parent \in KernelsOf(p) :
          /\ parent.state = DEPRECATED
          /\ parent.id \in everDeprecated
          /\ InSeq(parent.id, child.lineage.parents)

\* C36: in every reachable state every kernel of the archive has state
\* ARCHIVED and no kernel of a population has state ARCHIVED, also after
\* activateKernel or deprecateKernel is called with the id of an archived
\* kernel.
C36_ArchivedExactlyInArchive ==
  /\ \A j \in 1..Len(archive) : archive[j].state = ARCHIVED
  /\ \A p \in 1..Len(populations) :
        \A k \in KernelsOf(p) : k.state # ARCHIVED

RECURSIVE SumArchivedCount(_)
SumArchivedCount(pops) ==
  IF pops = <<>> THEN 0
  ELSE pops[1].statistics.archivedCount + SumArchivedCount(Tail(pops))

\* C37: in every reachable state every population has
\* statistics.totalCreated = len(kernels) + statistics.archivedCount, and the
\* length of the archive is the sum of archivedCount over all populations.
C37_CreatedIsHeldPlusArchived ==
  /\ \A p \in 1..Len(populations) :
        populations[p].statistics.totalCreated
          = Len(populations[p].kernels) + populations[p].statistics.archivedCount
  /\ Len(archive) = SumArchivedCount(populations)

\* A population that has had a kernel archived and a kernel bred into it.
C37_Witness ==
  \E p \in 1..Len(populations) :
    /\ populations[p].statistics.archivedCount > 0
    /\ populations[p].statistics.totalCreated > FounderCount
    /\ Len(archive) > 0

\* C38: once every startEvolution and stopEvolution call has returned,
\* isEvolving is true exactly when a periodic timer is scheduled, and at no
\* time is more than one timer scheduled, whatever listeners call while the
\* founders are created or while a tick runs.
C38_EvolvingIffOneTimer ==
  /\ timers <= 1
  /\ stack = <<>> => (isEvolving <=> timers = 1)

\* C39: between ticks (no evolutionCycle in progress) every population's
\* generation equals globalGeneration.
C39_GenerationsInStep ==
  ~InHandler("tick") =>
    \A p \in 1..Len(populations) :
      populations[p].generation = globalGeneration

\* C40: a breed call from outside changes the engine state only by
\* increasing totalKernelsCreated (by the number of offspring returned): no
\* kernel is added to a population or to the archive, and every kernel the
\* engine holds, the resolved parents among them, has the same genome (gene
\* objects, gene values and checksum), fitness, lineage and state after the
\* call as before, for every method and mutation rate.
C40_BreedLeavesParentsAlone ==
  [][CallOf("factory", "breed") =>
       /\ populations' = populations
       /\ archive' = archive
       /\ UNCHANGED <<config, globalGeneration, emergenceEvents, isEvolving,
                      evolutionInterval, timers>>
       /\ totalKernelsCreated'
            = totalKernelsCreated + Len(returned'.offspring)
       /\ Len(heap') >= Len(heap)
       /\ \A r \in 1..Len(heap) : heap'[r] = heap[r]
       /\ \A k \in AllKernels :
            /\ GeneValues(k, heap') = GeneValues(k, heap)
            /\ \A i \in 1..Len(returned'.offspring) :
                 \A g \in 1..Len(returned'.offspring[i].genome.coreGenes) :
                   ~InSeq(returned'.offspring[i].genome.coreGenes[g],
                          k.genome.coreGenes)
    ]_vars

\* breed has returned an offspring of two resolved parents whose genes were
\* mutated, and the engine has counted it.
C40_Witness ==
  /\ lastCall.op = "breed"
  /\ returned.op = "breed"
  /\ totalKernelsCreated > Len(KernelTypes) * FounderCount
  /\ \E i \in 1..Len(returned.offspring) :
        /\ Len(returned.offspring[i].lineage.parents) >= 2
        /\ returned.offspring[i].lineage.mutations # <<>>
====
